---- MODULE Spec2Model ----
(***************************************************************************)
(* Model of the RAG corpus builder: the asynchronous breadth-first crawler *)
(* (WebCrawler, RobotsCache, DomainThrottler in crawler.py) together with  *)
(* the job layer that consumes it (web/dashboard/tasks.py).                *)
(*                                                                         *)
(* Strings are sequences of one-character strings, so that urlparse, the   *)
(* f-string that rebuilds a URL and str.rstrip are computed character by   *)
(* character.  Time is discrete (one unit = one second) and kept relative: *)
(* the state holds how long ago a domain was last requested and how long   *)
(* a sleeping task still has to sleep, never the absolute clock.           *)
(***************************************************************************)
EXTENDS Integers, Sequences, FiniteSets, TLC

\* ------------------------------------------------------------------------
\* Bounds of the model
\* ------------------------------------------------------------------------
MaxPagesBound == 2      \* max_pages ranges over 1..MaxPagesBound
MaxDepthBound == 1      \* max_depth ranges over 0..MaxDepthBound
MaxConcurrency == 2     \* concurrency ranges over 1..MaxConcurrency
MaxCallers == 3         \* coroutines calling DomainThrottler.wait on their own
LongWords == 100        \* words of the long texts
LongDigitGroups == 66   \* groups of three digits of the text without separators
LongSentences == 40     \* sentences of the text of sentences
ShortParagraphs == 10   \* short paragraphs before the oversized one
MaxProcessCalls == 3    \* process() calls on one TextPreprocessor
MaxCancelCalls == 2     \* calls of cancel_job made for the job

\* ------------------------------------------------------------------------
\* Program constants
\* ------------------------------------------------------------------------
MaxAttempts == 3        \* stop_after_attempt(3)
RetryMultiplier == 1    \* wait_exponential(multiplier=1, ...)
RetryMin == 2           \* wait_exponential(min=2)
RetryMax == 30          \* wait_exponential(max=30)
DefaultChunkSize == 512     \* ChunkConfig.chunk_size default
MinChunkSize == 64          \* ChunkConfig.chunk_size ge
MaxChunkSize == 8192        \* ChunkConfig.chunk_size le
DefaultChunkOverlap == 64   \* ChunkConfig.chunk_overlap default
MaxChunkOverlap == 2048     \* ChunkConfig.chunk_overlap le
HashBits == 128             \* SimHasher(hash_bits=128)
MinTextLength == 50         \* process: "len(text.strip()) < 50"
DefaultMinLanguageConfidence == 80   \* PreprocessConfig.min_language_confidence, in hundredths
DefaultDedupThreshold == 95          \* PreprocessConfig.dedup_threshold, in hundredths

\* ------------------------------------------------------------------------
\* Strings
\* ------------------------------------------------------------------------
Min(S) == CHOOSE x \in S : \A y \in S : x <= y
Max(S) == CHOOSE x \in S : \A y \in S : x >= y

\* s[a..b], empty when b < a
Slice(s, a, b) == IF b < a THEN <<>> ELSE SubSeq(s, a, b)

\* str.find(c, start) on 1-based positions; 0 when absent
Find(s, c, start) ==
  LET I == {i \in start..Len(s) : s[i] = c}
  IN IF I = {} THEN 0 ELSE Min(I)

\* str.rfind(c); 0 when absent
RFind(s, c) ==
  LET I == {i \in 1..Len(s) : s[i] = c}
  IN IF I = {} THEN 0 ELSE Max(I)

\* str.startswith(p)
StartsWith(s, p) == Len(p) <= Len(s) /\ SubSeq(s, 1, Len(p)) = p

\* str.endswith(p)
EndsWith(s, p) == Len(p) <= Len(s) /\ SubSeq(s, Len(s) - Len(p) + 1, Len(s)) = p

\* p in s (substring), the meaning of re.search for a literal pattern
Contains(s, p) == \E i \in 1..(Len(s) - Len(p) + 1) : SubSeq(s, i, i + Len(p) - 1) = p

\* str.rstrip("/")
RECURSIVE RStripSlash(_)
RStripSlash(s) ==
  IF s # <<>> /\ s[Len(s)] = "/" THEN RStripSlash(SubSeq(s, 1, Len(s) - 1)) ELSE s

\* ------------------------------------------------------------------------
\* The URLs of the model
\* ------------------------------------------------------------------------
Http == <<"h", "t", "t", "p", ":", "/", "/">>
UA     == Http \o <<"a", "/">>                 \* http://a/
UAfrag == Http \o <<"a", "/", "#", "f">>       \* http://a/#f
UAp    == Http \o <<"a", "/", "p", "/">>       \* http://a/p/
UApq   == Http \o <<"a", "/", "p", "?", "q">>  \* http://a/p?q
UAl    == Http \o <<"a", "/", "l">>            \* http://a/l   (matches an exclusion pattern)
UB     == Http \o <<"b", "/">>                 \* http://b/
UBp    == Http \o <<"b", "/", "p">>            \* http://b/p
USub   == Http \o <<"x", ".", "a", "/">>       \* http://x.a/  (a subdomain of a)
ULike  == Http \o <<"x", "a", "/">>            \* http://xa/   (ends in a, no subdomain)
UBad   == Http \o <<"[", "x", "/">>            \* http://[x/   (a bracket that is not closed)
HashF  == <<"#", "f">>                         \* href="#f"
RawUrls == {UA, UAfrag, UAp, UApq, UAl, UB}

\* ------------------------------------------------------------------------
\* urllib.parse.urlparse, for URLs that have a scheme
\* ------------------------------------------------------------------------
\* first position at or after start holding one of "/", "?", "#"; Len(s)+1 when none
NetlocEnd(s, start) ==
  LET I == {i \in start..Len(s) : s[i] \in {"/", "?", "#"}}
  IN IF I = {} THEN Len(s) + 1 ELSE Min(I)

\* _splitparams: the parameters of the last path segment
SplitParams(p) ==
  LET i == IF Find(p, "/", 1) # 0 THEN Find(p, ";", RFind(p, "/")) ELSE Find(p, ";", 1)
  IN IF i = 0 THEN [path |-> p, params |-> <<>>]
     ELSE [path |-> Slice(p, 1, i - 1), params |-> Slice(p, i + 1, Len(p))]

\* urlparse: urlsplit cuts the scheme at the first ":", the netloc after "//" up to the
\* first "/", "?" or "#", the fragment after the first "#", the query after the first "?"
\* before it; _splitparams then cuts the parameters off the path.  The cuts are positions
\* in u: c the ":", ns..ne-1 the netloc, h the "#" and q0 the "?" found from ne on (0 when
\* absent), fe the last character before the fragment, ne..pe the path with its parameters.
ParseCuts(u, c, ns, ne, h, q0) ==
  LET fe == IF h = 0 THEN Len(u) ELSE h - 1
      q  == IF q0 = 0 \/ q0 > fe THEN 0 ELSE q0
      pe == IF q = 0 THEN fe ELSE q - 1
  IN [scheme   |-> Slice(u, 1, c - 1),
      netloc   |-> Slice(u, ns, ne - 1),
      path     |-> SplitParams(Slice(u, ne, pe)).path,
      params   |-> SplitParams(Slice(u, ne, pe)).params,
      query    |-> IF q = 0 THEN <<>> ELSE Slice(u, q + 1, fe),
      fragment |-> IF h = 0 THEN <<>> ELSE Slice(u, h + 1, Len(u))]

\* url[:2] == "//" after the scheme
HasNetloc(u, c) == Len(u) >= c + 2 /\ u[c + 1] = "/" /\ u[c + 2] = "/"

\* the netloc starts at ns
ParseFromNetloc(u, c, ns) ==
  ParseCuts(u, c, ns, IF HasNetloc(u, c) THEN NetlocEnd(u, ns) ELSE ns,
            Find(u, "#", IF HasNetloc(u, c) THEN NetlocEnd(u, ns) ELSE ns),
            Find(u, "?", IF HasNetloc(u, c) THEN NetlocEnd(u, ns) ELSE ns))

\* the scheme ends at c
ParseAfterScheme(u, c) == ParseFromNetloc(u, c, IF HasNetloc(u, c) THEN c + 3 ELSE c + 1)

ParseUrl(u) == ParseAfterScheme(u, Find(u, ":", 1))

\* parsed.path.rstrip("/") or "/"
StrippedPath(path) == IF RStripSlash(path) = <<>> THEN <<"/">> ELSE RStripSlash(path)

\* the f-strings of _normalise_url_full
Rebuild(parsed) ==
  parsed.scheme \o <<":", "/", "/">> \o parsed.netloc \o StrippedPath(parsed.path)
    \o (IF parsed.query # <<>> THEN <<"?">> \o parsed.query ELSE <<>>)

\* every URL the crawl can meet: the URLs above and what normalisation makes of them
ModelUrls == RawUrls \cup {UBp, USub, ULike, UBad} \cup {Rebuild(ParseUrl(u)) : u \in RawUrls}

\* ParseUrl on the URLs of the model, computed once
ParsedUrls == [u \in ModelUrls |-> ParseUrl(u)]

\* urlparse(url)
urlparse(u) == IF u \in ModelUrls THEN ParsedUrls[u] ELSE ParseUrl(u)

\* WebCrawler._normalise_url_full
_normalise_url_full(u) == Rebuild(urlparse(u))

\* the f-string of RobotsCache.is_allowed
OriginOf(parsed) == parsed.scheme \o <<":", "/", "/">> \o parsed.netloc

\* the robots.txt key of RobotsCache.is_allowed: scheme://netloc
RobotsDomain(u) == OriginOf(urlparse(u))

\* the key of DomainThrottler.wait: netloc
ThrottleDomain(u) == urlparse(u).netloc

\* ------------------------------------------------------------------------
\* The inputs of the model
\* ------------------------------------------------------------------------
\* CrawlConfig.seed_urls
SeedChoices == {<<>>, <<UA>>, <<UA, UAfrag>>, <<UA, UB>>}

\* CrawlConfig.excluded_patterns, as literal patterns (r".*/l.*")
ExcludedPatterns == {<<"/", "l">>}

\* the href attributes of the <a> tags of a fetched page, in document order
HrefLists == {<<>>, <<UAp, UAfrag, HashF, UAl, UB>>}

\* what client.get(url) can return for a page
Responses ==
  {[ctype |-> "text/html", status |-> 200, hrefs |-> L] : L \in HrefLists}
  \cup {[ctype |-> "text/html", status |-> 404, hrefs |-> <<>>],
        [ctype |-> "image/png", status |-> 200, hrefs |-> <<>>]}

\* the URLs a task can be created for
SiteUrls == {_normalise_url_full(u) : u \in RawUrls \cup {UBp, USub, ULike}}

\* a web where every URL can answer with any of the responses
AnySite == [u \in SiteUrls |-> Responses]

\* a robots.txt body: the Disallow path prefixes that apply to the user agent
RobotsTexts == {<<>>, << <<"/", "p">> >>}

\* what client.get(robots_url) can do: a response, or an exception
RobotsOutcomes ==
  {[raised |-> FALSE, status |-> 200, text |-> tx] : tx \in RobotsTexts}
  \cup {[raised |-> FALSE, status |-> 404, text |-> << <<"/">> >>],
        [raised |-> TRUE, status |-> 0, text |-> <<>>]}

\* CrawlConfig.delay_seconds and CrawlConfig.respect_robots_txt
Politeness ==
  {[delay_seconds |-> 0, respect_robots_txt |-> TRUE],
   [delay_seconds |-> 0, respect_robots_txt |-> FALSE],
   [delay_seconds |-> 3, respect_robots_txt |-> FALSE]}

\* the CrawlConfig values of the model
Configs ==
  {[seed_urls |-> s, max_pages |-> mp, max_depth |-> md, concurrency |-> c,
    delay_seconds |-> p.delay_seconds, respect_robots_txt |-> p.respect_robots_txt,
    allowed_domains |-> <<>>, excluded_patterns |-> ExcludedPatterns] :
     s \in SeedChoices, mp \in 1..MaxPagesBound, md \in 0..MaxDepthBound,
     c \in 1..MaxConcurrency, p \in Politeness}

\* ------------------------------------------------------------------------
\* Texts and the tokenizer
\* ------------------------------------------------------------------------
\* the characters of the texts of the model, by the classes the tokenizer and the
\* chunker tell apart
Letters     == {"a", "b", "A", "B"}
Digits      == {"1"}
Whitespace  == {" ", "\n", "\t"}
Newlines    == {"\n"}
SentenceEnd == {".", "!", "?"}
Punctuation == SentenceEnd \cup {";", ","}

\* a for loop: Step(state, k) for k = lo, ..., hi in this order, starting from st.  The
\* range is run by halves, the first half to its end before the second is entered.
RECURSIVE Iterate(_, _, _, _)
Iterate(Step(_, _), st, lo, hi) ==
  IF lo > hi THEN st
  ELSE IF lo = hi THEN Step(st, lo)
  ELSE CHOOSE r \in {Iterate(Step, m, (lo + hi) \div 2 + 1, hi) :
                       m \in {Iterate(Step, st, lo, (lo + hi) \div 2)}} : TRUE

\* the last position of the run of characters of class C that holds position i
RECURSIVE RunEnd(_, _, _)
RunEnd(s, i, C) == IF i < Len(s) /\ s[i + 1] \in C THEN RunEnd(s, i + 1, C) ELSE i

\* the first position of the run of characters of class C that holds position i
RECURSIVE RunStart(_, _, _)
RunStart(s, i, C) == IF i > 1 /\ s[i - 1] \in C THEN RunStart(s, i - 1, C) ELSE i

\* str.strip()
strip(s) ==
  IF s = <<>> THEN <<>>
  ELSE IF s[1] \in Whitespace
       THEN IF RunEnd(s, 1, Whitespace) = Len(s) THEN <<>>
            ELSE IF s[Len(s)] \in Whitespace
                 THEN SubSeq(s, RunEnd(s, 1, Whitespace) + 1,
                             RunStart(s, Len(s), Whitespace) - 1)
                 ELSE SubSeq(s, RunEnd(s, 1, Whitespace) + 1, Len(s))
       ELSE IF s[Len(s)] \in Whitespace
            THEN SubSeq(s, 1, RunStart(s, Len(s), Whitespace) - 1)
            ELSE s

\* sep occurs in s at position k
OccursAt(s, sep, k) == k + Len(sep) - 1 <= Len(s) /\ SubSeq(s, k, k + Len(sep) - 1) = sep

\* one position of the scan of str.split: st.from is where the running part starts, and
\* an occurrence of sep at or after it closes the part
SplitStep(s, sep, st, k) ==
  IF k >= st.from /\ OccursAt(s, sep, k)
  THEN [parts |-> Append(st.parts, Slice(s, st.from, k - 1)), from |-> k + Len(sep)]
  ELSE st

\* the parts a scan leaves: the closed ones and the one that runs to the end
ClosedParts(s, st) == Append(st.parts, Slice(s, st.from, Len(s)))

\* text.split(sep)
split(s, sep) ==
  ClosedParts(s, Iterate(LAMBDA st, k : SplitStep(s, sep, st, k),
                         [parts |-> <<>>, from |-> 1], 1, Len(s)))

\* \p{N}{1,3} from position i on
DigitsEnd(s, i) ==
  IF i < Len(s) /\ s[i + 1] \in Digits
  THEN IF i + 1 < Len(s) /\ s[i + 2] \in Digits THEN i + 2 ELSE i + 1
  ELSE i

\*  ?[^\s\p{L}\p{N}]+[\r\n]*  whose punctuation starts at position i
PunctuationEnd(s, i) ==
  IF RunEnd(s, i, Punctuation) < Len(s) /\ s[RunEnd(s, i, Punctuation) + 1] \in Newlines
  THEN RunEnd(s, RunEnd(s, i, Punctuation) + 1, Newlines)
  ELSE RunEnd(s, i, Punctuation)

\* \s*[\r\n]+  |  \s+(?!\S)  |  \s+   for the whitespace run i..we
WhitespaceEnd(s, i, we) ==
  IF \E k \in i..we : s[k] \in Newlines THEN Max({k \in i..we : s[k] \in Newlines})
  ELSE IF we = Len(s) THEN we
  ELSE IF we > i THEN we - 1
  ELSE we

\* the last position of the pre-token that starts at position i, by the alternatives of
\* the cl100k_base pattern in their order:
\*   [^\r\n\p{L}\p{N}]?\p{L}+  |  \p{N}{1,3}  |   ?[^\s\p{L}\p{N}]+[\r\n]*
\*   |  \s*[\r\n]+  |  \s+(?!\S)  |  \s+
TokenEnd(s, i) ==
  IF s[i] \in Letters THEN RunEnd(s, i, Letters)
  ELSE IF s[i] \notin Newlines \cup Digits /\ i < Len(s) /\ s[i + 1] \in Letters
       THEN RunEnd(s, i + 1, Letters)
  ELSE IF s[i] \in Digits THEN DigitsEnd(s, i)
  ELSE IF s[i] \in Punctuation THEN PunctuationEnd(s, i)
  ELSE IF s[i] = " " /\ i < Len(s) /\ s[i + 1] \in Punctuation THEN PunctuationEnd(s, i + 1)
  ELSE WhitespaceEnd(s, i, RunEnd(s, i, Whitespace))

\* one position of the scan of the tokenizer: a token starts at st.from
EncodeStep(s, st, k) ==
  IF k = st.from
  THEN [tokens |-> Append(st.tokens, SubSeq(s, k, TokenEnd(s, k))), from |-> TokenEnd(s, k) + 1]
  ELSE st

\* self._encoder.encode(text): the tokens as pieces of the text, every pre-token of the
\* texts of the model being one entry of the vocabulary
encode(text) ==
  Iterate(LAMBDA st, k : EncodeStep(text, st, k), [tokens |-> <<>>, from |-> 1],
          1, Len(text)).tokens

\* self._encoder.decode(tokens)
decode(tokens) == Iterate(LAMBDA st, k : st \o tokens[k], <<>>, 1, Len(tokens))

\* tokens[a:b] of Python, a and b counted from 0 and clipped
PySlice(seq, a, b) == Slice(seq, a + 1, Min({b, Len(seq)}))

\* ------------------------------------------------------------------------
\* ChunkConfig
\* ------------------------------------------------------------------------
\* ChunkStrategy
ChunkStrategy == {"recursive", "semantic", "sliding_window", "sentence"}

\* the keyword arguments of ChunkConfig(...): chunk_size and chunk_overlap are passed or
\* left out (the value of an argument that is left out is not read)
ChunkArgs ==
  {[strategy |-> st, size_given |-> TRUE, chunk_size |-> sz,
    overlap_given |-> og, chunk_overlap |-> ov] :
     st \in ChunkStrategy, sz \in {MinChunkSize, MaxChunkSize}, og \in {TRUE},
     ov \in {0, 8, DefaultChunkOverlap, MaxChunkOverlap}}
  \cup
  {[strategy |-> st, size_given |-> TRUE, chunk_size |-> sz,
    overlap_given |-> FALSE, chunk_overlap |-> 0] :
     st \in ChunkStrategy, sz \in {MinChunkSize, MaxChunkSize}}
  \cup
  {[strategy |-> st, size_given |-> FALSE, chunk_size |-> 0,
    overlap_given |-> og, chunk_overlap |-> ov] :
     st \in ChunkStrategy, og \in {TRUE}, ov \in {0, 8, DefaultChunkOverlap, MaxChunkOverlap}}
  \cup
  {[strategy |-> st, size_given |-> FALSE, chunk_size |-> 0,
    overlap_given |-> FALSE, chunk_overlap |-> 0] : st \in ChunkStrategy}

\* ChunkConfig.overlap_must_be_less_than_size raises ValueError; data holds the fields
\* validated before chunk_overlap: chunk_size is absent from it when its own validation
\* failed, and data.get("chunk_size", 512) then answers 512
overlap_must_be_less_than_size(v, size_valid, size) ==
  LET chunk_size == IF size_valid THEN size ELSE DefaultChunkSize
  IN v >= chunk_size

\* ChunkConfig(**args) under pydantic: a field that is passed is checked against its
\* Field bounds and then by its field validator; a field that is left out takes its
\* default, which is not validated (validate_default is off)
ChunkConfig(args) ==
  LET size       == IF args.size_given THEN args.chunk_size ELSE DefaultChunkSize
      size_valid == args.size_given => (size >= MinChunkSize /\ size <= MaxChunkSize)
      overlap    == IF args.overlap_given THEN args.chunk_overlap ELSE DefaultChunkOverlap
      overlap_valid ==
        args.overlap_given =>
          /\ overlap >= 0 /\ overlap <= MaxChunkOverlap
          /\ ~overlap_must_be_less_than_size(overlap, size_valid, size)
  IN [ok |-> size_valid /\ overlap_valid, strategy |-> args.strategy,
      chunk_size |-> size, chunk_overlap |-> overlap]

\* ------------------------------------------------------------------------
\* State
\* ------------------------------------------------------------------------
VARIABLES
  site,            \* the web: what client.get(url) can return, for each URL
  config,          \* WebCrawler.config
  visited,         \* WebCrawler._visited
  allowed_domains, \* WebCrawler._allowed_domains
  pages_crawled,   \* WebCrawler._pages_crawled
  pages_failed,    \* WebCrawler._pages_failed
  pages_skipped,   \* WebCrawler._pages_skipped
  queue,           \* crawl(): the asyncio.Queue of (url, depth, parent)
  results,         \* crawl(): the list of CrawlResult
  tasks,           \* every process_url task created so far, in creation order
  active_tasks,    \* crawl(): the set of tasks not yet discarded
  semaphore,       \* number of holders of asyncio.Semaphore(concurrency)
  robots_cache,    \* RobotsCache._cache: a function from the cached origins to their rules
  robots_lock,     \* RobotsCache._lock: the holding task, 0 when free
  since_request,   \* netloc -> time.monotonic() - DomainThrottler._last_request[netloc],
                   \*           saturating at delay_seconds
  throttle_locks,  \* DomainThrottler._locks: netloc -> holding task, 0 when free
  dpc,             \* where crawl() is: init, launch, wait, gather, yield, done
  wait_set,        \* the tasks handed to asyncio.wait
  crawl_results,   \* _execute_pipeline: the pages received from the iterator
  job_status,      \* CrawlJob.status
  enqueued,        \* history: every URL ever put on the queue, in order
  robots_fetches,  \* history: origin -> number of robots.txt requests sent
  robots_source,   \* history: origin -> how its cache entry was obtained
  robots_denied    \* history: origin -> number of URLs is_allowed answered False for

\* the chunking stage
VARIABLES
  chunk_args,      \* the keyword arguments of ChunkConfig(...)
  chunk_config,    \* the ChunkConfig constructed from them (ok = FALSE: ValidationError)
  chunk_doc,       \* the ProcessedDocument handed to chunk_document
  chunks,          \* the list chunk_document returned
  cpc              \* where the stage is: idle, new, ready, rejected, chunked

\* the preprocessing stage: one TextPreprocessor
VARIABLES
  pre_config,      \* TextPreprocessor.config
  _seen_hashes,    \* the list of (simhash, url)
  _exact_hashes,   \* the set of content hashes
  calls            \* the process() calls so far: the document, what was returned and why

\* _normalise_url_full called on its own result
VARIABLES
  norm_url,        \* the URL given first, with the parts it was written from
  norm_results     \* what _normalise_url_full returned, call after call

\* the pipeline thread of a job and the calls of cancel_job
VARIABLES
  thread_pc,       \* where _run_pipeline_thread is: idle, new, work, check, checked, done
  thread_stage,    \* the stage _execute_pipeline is at, 1..Stages
  job,             \* job.status of the CrawlJob object the thread holds
  cancel_job_read, \* job.status of the object cancel_job has read ("none": no call running)
  cancel_returns   \* history: what the calls of cancel_job returned

vars == <<site, config, visited, allowed_domains, pages_crawled, pages_failed, pages_skipped,
          queue, results, tasks, active_tasks, semaphore, robots_cache, robots_lock,
          since_request, throttle_locks, dpc, wait_set, crawl_results, job_status,
          enqueued, robots_fetches, robots_source, robots_denied,
          chunk_args, chunk_config, chunk_doc, chunks, cpc,
          pre_config, _seen_hashes, _exact_hashes, calls,
          norm_url, norm_results,
          thread_pc, thread_stage, job, cancel_job_read, cancel_returns>>

counterVars  == <<pages_crawled, pages_failed, pages_skipped>>
frontierVars == <<visited, queue, enqueued>>
robotsVars   == <<robots_cache, robots_lock, robots_fetches, robots_source, robots_denied>>
throttleVars == <<since_request, throttle_locks>>
consumerVars == <<crawl_results, job_status>>
crawlVars    == <<site, config, visited, allowed_domains, pages_crawled, pages_failed, pages_skipped,
                  queue, results, tasks, active_tasks, semaphore, robots_cache, robots_lock,
                  since_request, throttle_locks, dpc, wait_set, crawl_results, job_status,
                  enqueued, robots_fetches, robots_source, robots_denied>>
chunkerVars  == <<chunk_args, chunk_config, chunk_doc, chunks, cpc>>
preprocessorVars == <<pre_config, _seen_hashes, _exact_hashes, calls>>
normaliserVars == <<norm_url, norm_results>>
pipelineVars == <<thread_pc, thread_stage, job, cancel_job_read, cancel_returns>>
\* the pipeline stages after the crawl, and the job
stageVars    == <<chunkerVars, preprocessorVars, normaliserVars, pipelineVars>>

Netlocs == {<<"a">>, <<"b">>, <<"x", ".", "a">>, <<"x", "a">>}
Origins == {Http \o n : n \in Netlocs}

\* a WebCrawler that is never started
IdleCrawler ==
  /\ site = AnySite
  /\ config = [seed_urls |-> <<>>, max_pages |-> 1, max_depth |-> 0, concurrency |-> 1,
               delay_seconds |-> 0, respect_robots_txt |-> FALSE,
               allowed_domains |-> <<>>, excluded_patterns |-> ExcludedPatterns]
  /\ visited = {} /\ allowed_domains = {}
  /\ pages_crawled = 0 /\ pages_failed = 0 /\ pages_skipped = 0
  /\ queue = <<>> /\ results = <<>> /\ enqueued = <<>>
  /\ tasks = <<>> /\ active_tasks = {} /\ semaphore = 0
  /\ dpc = "init" /\ wait_set = {}
  /\ robots_cache = [o \in {} |-> <<>>] /\ robots_lock = 0
  /\ robots_fetches = [o \in Origins |-> 0]
  /\ robots_source = [o \in Origins |-> "none"]
  /\ robots_denied = [o \in Origins |-> 0]
  /\ since_request = [n \in Netlocs |-> 0]
  /\ throttle_locks = [n \in Netlocs |-> 0]
  /\ crawl_results = <<>>

\* no pipeline thread and no call of cancel_job
NoPipeline ==
  /\ thread_pc = "idle" /\ thread_stage = 1 /\ job = "RUNNING"
  /\ cancel_job_read = "none" /\ cancel_returns = <<>>

\* a WebCrawler that is never started, for a job
NoCrawl == IdleCrawler /\ job_status = "RUNNING" /\ NoPipeline

\* no ChunkConfig has been built and nothing chunked
NoChunking ==
  /\ chunk_args = [strategy |-> "recursive", size_given |-> FALSE, chunk_size |-> 0,
                   overlap_given |-> FALSE, chunk_overlap |-> 0]
  /\ chunk_config = [ok |-> FALSE, strategy |-> "recursive", chunk_size |-> 0,
                     chunk_overlap |-> 0]
  /\ chunk_doc = [url |-> <<>>, clean_text |-> <<>>]
  /\ chunks = <<>>
  /\ cpc = "idle"

\* a TextPreprocessor with the default configuration that has processed nothing
NoPreprocessing ==
  /\ pre_config = [lowercase |-> FALSE, remove_extra_whitespace |-> TRUE,
                   min_language_confidence |-> DefaultMinLanguageConfidence,
                   target_languages |-> {"en"}, dedup_enabled |-> TRUE,
                   dedup_threshold |-> DefaultDedupThreshold]
  /\ _seen_hashes = <<>>
  /\ _exact_hashes = {}
  /\ calls = <<>>

\* _normalise_url_full is not called on its own
NoNormalising ==
  /\ norm_url = [netloc |-> <<>>, path |-> <<>>, query |-> <<>>, fragment |-> <<>>,
                 url |-> <<>>]
  /\ norm_results = <<>>

\* WebCrawler.__init__, RobotsCache.__init__, DomainThrottler.__init__ and a RUNNING job
Init ==
  /\ site = AnySite
  /\ config \in Configs
  /\ visited = {}
  /\ allowed_domains = {}
  /\ pages_crawled = 0
  /\ pages_failed = 0
  /\ pages_skipped = 0
  /\ queue = <<>>
  /\ results = <<>>
  /\ tasks = <<>>
  /\ active_tasks = {}
  /\ semaphore = 0
  /\ robots_cache = [o \in {} |-> <<>>]
  /\ robots_lock = 0
  /\ since_request = [n \in Netlocs |-> config.delay_seconds]
  /\ throttle_locks = [n \in Netlocs |-> 0]
  /\ dpc = "init"
  /\ wait_set = {}
  /\ crawl_results = <<>>
  /\ job_status = "RUNNING"
  /\ enqueued = <<>>
  /\ robots_fetches = [o \in Origins |-> 0]
  /\ robots_source = [o \in Origins |-> "none"]
  /\ robots_denied = [o \in Origins |-> 0]
  /\ NoChunking
  /\ NoPreprocessing
  /\ NoNormalising
  /\ NoPipeline

\* ------------------------------------------------------------------------
\* Helpers of WebCrawler
\* ------------------------------------------------------------------------
\* WebCrawler._is_excluded: any(pattern.search(url))
_is_excluded(u) == \E p \in config.excluded_patterns : Contains(u, p)

\* _is_allowed_domain without the dot: domain.endswith(d)
_is_allowed_domainAnySuffix(u) ==
  IF allowed_domains = {} THEN TRUE
  ELSE LET domain == urlparse(u).netloc
       IN \E d \in allowed_domains : EndsWith(domain, d)

\* WebCrawler._is_allowed_domain
_is_allowed_domain(u) ==
  IF allowed_domains = {} THEN TRUE
  ELSE LET domain == urlparse(u).netloc
       IN \E d \in allowed_domains : domain = d \/ EndsWith(domain, <<".">> \o d)

\* the href prefixes _extract_links skips
SkippedPrefixes ==
  { <<"j","a","v","a","s","c","r","i","p","t",":">>, <<"m","a","i","l","t","o",":">>,
    <<"t","e","l",":">>, <<"#">> }

\* urljoin(base_url, href) for an href that is an absolute URL
urljoin(base, href) == href

\* urlsplit raises ValueError("Invalid IPv6 URL") for a netloc with one bracket only
InvalidIPv6(u) ==
  LET netloc == urlparse(u).netloc
  IN (\E i \in 1..Len(netloc) : netloc[i] = "[") # (\E i \in 1..Len(netloc) : netloc[i] = "]")

\* _extract_links raises: urljoin, or urlparse in _normalise_url_full, rejects an href
ExtractRaises(hrefs, base_url) ==
  \E i \in 1..Len(hrefs) :
    /\ ~ \E p \in SkippedPrefixes : StartsWith(hrefs[i], p)
    /\ InvalidIPv6(urljoin(base_url, hrefs[i]))

\* WebCrawler._extract_links, on the hrefs the regular expression finds
RECURSIVE _extract_links(_, _)
_extract_links(hrefs, base_url) ==
  IF hrefs = <<>> THEN <<>>
  ELSE LET href == Head(hrefs)
           rest == _extract_links(Tail(hrefs), base_url)
       IN IF \E p \in SkippedPrefixes : StartsWith(href, p) THEN rest
          ELSE LET normalised == _normalise_url_full(urljoin(base_url, href))
               IN IF StartsWith(normalised, Http)
                     \/ StartsWith(normalised, <<"h","t","t","p","s",":","/","/">>)
                  THEN <<normalised>> \o rest
                  ELSE rest

\* process_url, "Discover new links": the loop over the extracted links
RECURSIVE DiscoverLinks(_, _, _, _, _, _)
DiscoverLinks(links, vis, q, enq, depth, url) ==
  IF links = <<>> THEN [visited |-> vis, queue |-> q, enqueued |-> enq]
  ELSE LET norm_link == _normalise_url_full(Head(links))
       IN IF norm_link \notin vis /\ _is_allowed_domain(norm_link) /\ ~_is_excluded(norm_link)
          THEN DiscoverLinks(Tail(links), vis \cup {norm_link},
                             Append(q, [url |-> norm_link, depth |-> depth + 1, parent |-> url]),
                             Append(enq, norm_link), depth, url)
          ELSE DiscoverLinks(Tail(links), vis, q, enq, depth, url)

\* RobotExclusionRulesParser.is_allowed: no Disallow prefix matches the path
RobotsAllows(rules, u) == ~ \E i \in 1..Len(rules) : StartsWith(urlparse(u).path, rules[i])

\* RobotsParse without the status test: the body of an error page is parsed
RobotsParseAnyStatus(outcome) == IF outcome.raised THEN <<>> ELSE outcome.text

\* the rules RobotsCache.is_allowed stores for the outcome of the robots.txt request
RobotsParse(outcome) ==
  IF outcome.raised THEN <<>>
  ELSE IF outcome.status = 200 THEN outcome.text
  ELSE <<>>

\* tenacity wait_exponential(multiplier=1, min=2, max=30) after attempt n
RetryWait(n) == Max({RetryMin, Min({RetryMultiplier * 2^(n - 1), RetryMax})})

\* a new process_url task
NewTask(item) ==
  [url |-> item.url, depth |-> item.depth, parent |-> item.parent,
   pc |-> "sem",            \* sem, robots, robots_fetch, throttle, sleep, fetch, retry_sleep, done
   attempts |-> 0,          \* attempts of _fetch started
   remaining |-> 0,         \* how long the current sleep still lasts
   started_cancelled |-> FALSE,   \* history: the job was cancelled when it started
   outcome |-> "none",      \* history: how it ended: over_budget, skipped, failed, dropped, crawled,
                            \* failed_after_emit
   exc |-> FALSE]           \* an exception escaped process_url

\* what no step of process_url assigns
staticVars == <<site, config, allowed_domains, stageVars>>
dispVars   == <<dpc, wait_set>>

\* ------------------------------------------------------------------------
\* crawl(): the dispatcher
\* ------------------------------------------------------------------------
\* crawl() up to the BFS loop: allowed domains, seeds put on the queue
CrawlStart ==
  /\ dpc = "init"
  /\ IF config.seed_urls = <<>>
     THEN /\ dpc' = "done"
          /\ UNCHANGED <<allowed_domains, visited, queue, enqueued>>
     ELSE LET seeds == config.seed_urls
              norm  == [i \in 1..Len(seeds) |-> _normalise_url_full(seeds[i])]
          IN /\ allowed_domains' =
                  IF config.allowed_domains # <<>>
                  THEN {config.allowed_domains[i] : i \in 1..Len(config.allowed_domains)}
                  ELSE {urlparse(seeds[i]).netloc : i \in 1..Len(seeds)}
             /\ visited' = {norm[i] : i \in 1..Len(seeds)}
             /\ queue' = [i \in 1..Len(seeds) |-> [url |-> norm[i], depth |-> 0, parent |-> <<>>]]
             /\ enqueued' = norm
             /\ dpc' = "launch"
  /\ UNCHANGED <<site, config, counterVars, results, tasks, active_tasks, semaphore, robotsVars,
                 throttleVars, wait_set, consumerVars, stageVars>>

\* LaunchCount without the tasks in flight: "self._pages_crawled < self.config.max_pages"
LaunchCountIgnoringActive ==
  LET room == config.max_pages - pages_crawled
  IN IF room <= 0 THEN 0 ELSE Min({room, Len(queue)})

\* LaunchCount with an off-by-one budget: "... + len(active_tasks) + 1 < max_pages"
LaunchCountOffByOne ==
  LET room == config.max_pages - pages_crawled - Cardinality(active_tasks) - 1
  IN IF room <= 0 THEN 0 ELSE Min({room, Len(queue)})

\* how many tasks the inner while loop creates
LaunchCount ==
  LET room == config.max_pages - pages_crawled - Cardinality(active_tasks)
  IN IF room <= 0 THEN 0 ELSE Min({room, Len(queue)})

\* one pass of "while not queue.empty() or active_tasks" up to asyncio.wait
Launch ==
  /\ dpc = "launch"
  /\ IF queue = <<>> /\ active_tasks = {}
     THEN /\ dpc' = "gather"
          /\ UNCHANGED <<queue, tasks, active_tasks, wait_set>>
     ELSE LET n      == LaunchCount
              born   == [i \in 1..n |-> NewTask(queue[i])]
              active == active_tasks \cup ((Len(tasks) + 1)..(Len(tasks) + n))
          IN /\ tasks' = tasks \o born
             /\ queue' = Slice(queue, n + 1, Len(queue))
             /\ active_tasks' = active
             /\ IF active # {}
                THEN dpc' = "wait" /\ wait_set' = active
                ELSE /\ wait_set' = wait_set
                     /\ dpc' = IF pages_crawled >= config.max_pages THEN "gather" ELSE "launch"
  /\ UNCHANGED <<staticVars, counterVars, visited, enqueued, results, semaphore, robotsVars,
                 throttleVars, consumerVars>>

\* asyncio.wait(FIRST_COMPLETED) returns, then the "hit the max" check
WaitReturn ==
  /\ dpc = "wait"
  /\ \E t \in wait_set : tasks[t].pc = "done"
  /\ active_tasks' = {t \in active_tasks : tasks[t].pc # "done"}
  /\ wait_set' = {}
  /\ dpc' = IF pages_crawled >= config.max_pages THEN "gather" ELSE "launch"
  /\ UNCHANGED <<staticVars, counterVars, frontierVars, results, tasks, semaphore, robotsVars,
                 throttleVars, consumerVars>>

\* "Wait for remaining tasks": asyncio.gather over what is still active
Gather ==
  /\ dpc = "gather"
  /\ \A t \in active_tasks : tasks[t].pc = "done"
  /\ dpc' = "yield"
  /\ UNCHANGED <<staticVars, counterVars, frontierVars, results, tasks, active_tasks, semaphore,
                 robotsVars, throttleVars, wait_set, consumerVars>>

\* "for result in results: yield result", received by collect_crawl
YieldResult ==
  /\ dpc = "yield"
  /\ Len(crawl_results) < Len(results)
  /\ crawl_results' = Append(crawl_results, results[Len(crawl_results) + 1])
  /\ dpc' = IF job_status = "CANCELLED" THEN "done" ELSE "yield"
  /\ UNCHANGED <<staticVars, counterVars, frontierVars, results, tasks, active_tasks, semaphore,
                 robotsVars, throttleVars, wait_set, job_status>>

\* the generator is exhausted
CrawlEnd ==
  /\ dpc = "yield"
  /\ Len(crawl_results) = Len(results)
  /\ dpc' = "done"
  /\ UNCHANGED <<staticVars, counterVars, frontierVars, results, tasks, active_tasks, semaphore,
                 robotsVars, throttleVars, wait_set, consumerVars>>

\* cancel_job
CancelJob ==
  /\ job_status = "RUNNING"
  /\ job_status' = "CANCELLED"
  /\ UNCHANGED <<staticVars, counterVars, frontierVars, results, tasks, active_tasks, semaphore,
                 robotsVars, throttleVars, dispVars, crawl_results>>

\* one second passes
Tick ==
  /\ dpc \notin {"init", "done"}
  /\ since_request' = [n \in Netlocs |-> Min({since_request[n] + 1, config.delay_seconds})]
  /\ tasks' = [t \in 1..Len(tasks) |->
                 [tasks[t] EXCEPT !.remaining = Max({@ - 1, 0})]]
  /\ <<since_request, tasks>>' # <<since_request, tasks>>
  /\ UNCHANGED <<staticVars, counterVars, frontierVars, results, active_tasks, semaphore,
                 robotsVars, throttle_locks, dispVars, consumerVars>>

\* ------------------------------------------------------------------------
\* crawl(): process_url, one action per stretch between two suspension points
\* ------------------------------------------------------------------------
\* the task returns: the semaphore is released, the done callback discards it
Return(t, how) ==
  /\ tasks' = [tasks EXCEPT ![t] = [@ EXCEPT !.pc = "done", !.attempts = 0,
                                              !.started_cancelled = FALSE, !.outcome = how]]
  /\ active_tasks' = active_tasks \ {t}
  /\ semaphore' = semaphore - 1

\* "async with semaphore" and the page budget check
Start(t) ==
  /\ tasks[t].pc = "sem"
  /\ semaphore < config.concurrency
  /\ LET me == [tasks[t] EXCEPT !.started_cancelled = (job_status = "CANCELLED")]
     IN IF pages_crawled >= config.max_pages
        THEN /\ tasks' = [tasks EXCEPT ![t].pc = "done", ![t].outcome = "over_budget"]
             /\ active_tasks' = active_tasks \ {t}
             /\ semaphore' = semaphore
        ELSE /\ tasks' = [tasks EXCEPT ![t] =
                            [me EXCEPT !.pc = IF config.respect_robots_txt THEN "robots"
                                              ELSE "throttle"]]
             /\ semaphore' = semaphore + 1
             /\ active_tasks' = active_tasks
  /\ UNCHANGED <<staticVars, counterVars, frontierVars, results, robotsVars, throttleVars,
                 dispVars, consumerVars>>

\* process_url after is_allowed returned: skip when denied, else go on to the throttler
AfterRobots(t, rules) ==
  IF RobotsAllows(rules, tasks[t].url)
  THEN /\ tasks' = [tasks EXCEPT ![t].pc = "throttle"]
       /\ UNCHANGED <<pages_skipped, active_tasks, semaphore, robots_denied>>
  ELSE /\ pages_skipped' = pages_skipped + 1
       /\ robots_denied' = [robots_denied EXCEPT ![RobotsDomain(tasks[t].url)] = @ + 1]
       /\ Return(t, "skipped")

\* RobotsEnter without "async with self._lock"
RobotsEnterUnlocked(t) ==
  /\ tasks[t].pc = "robots"
  /\ LET domain == RobotsDomain(tasks[t].url)
     IN IF domain \in DOMAIN robots_cache
        THEN /\ AfterRobots(t, robots_cache[domain])
             /\ UNCHANGED <<robots_cache, robots_lock, robots_fetches, robots_source>>
        ELSE /\ robots_fetches' = [robots_fetches EXCEPT ![domain] = @ + 1]
             /\ tasks' = [tasks EXCEPT ![t].pc = "robots_fetch"]
             /\ UNCHANGED <<robots_cache, robots_lock, robots_source, robots_denied,
                            pages_skipped, active_tasks, semaphore>>
  /\ UNCHANGED <<staticVars, pages_crawled, pages_failed, frontierVars, results, throttleVars,
                 dispVars, consumerVars>>

\* RobotsCache.is_allowed takes the lock: answers from the cache, or sends the request
RobotsEnter(t) ==
  /\ tasks[t].pc = "robots"
  /\ robots_lock = 0
  /\ LET domain == RobotsDomain(tasks[t].url)
     IN IF domain \in DOMAIN robots_cache
        THEN /\ AfterRobots(t, robots_cache[domain])
             /\ UNCHANGED <<robots_cache, robots_lock, robots_fetches, robots_source>>
        ELSE /\ robots_lock' = t
             /\ robots_fetches' = [robots_fetches EXCEPT ![domain] = @ + 1]
             /\ tasks' = [tasks EXCEPT ![t].pc = "robots_fetch"]
             /\ UNCHANGED <<robots_cache, robots_source, robots_denied, pages_skipped,
                            active_tasks, semaphore>>
  /\ UNCHANGED <<staticVars, pages_crawled, pages_failed, frontierVars, results, throttleVars,
                 dispVars, consumerVars>>

\* the robots.txt request ends: the rules are cached, the lock is released
RobotsReturn(t, outcome) ==
  /\ tasks[t].pc = "robots_fetch"
  /\ LET domain == RobotsDomain(tasks[t].url)
         rules  == RobotsParse(outcome)
     IN /\ robots_cache' = [o \in DOMAIN robots_cache \cup {domain} |->
                               IF o = domain THEN rules ELSE robots_cache[o]]
        /\ robots_source' = [robots_source EXCEPT ![domain] =
                               IF outcome.raised \/ outcome.status # 200 THEN "unavailable"
                               ELSE "ok"]
        /\ robots_lock' = 0
        /\ AfterRobots(t, rules)
  /\ UNCHANGED <<staticVars, pages_crawled, pages_failed, frontierVars, results, robots_fetches,
                 throttleVars, dispVars, consumerVars>>

\* ThrottleEnter without the domain's lock: the check and the recording are not atomic
ThrottleEnterUnlocked(t) ==
  /\ tasks[t].pc = "throttle"
  /\ LET domain  == ThrottleDomain(tasks[t].url)
         elapsed == since_request[domain]
     IN IF elapsed < config.delay_seconds
        THEN /\ tasks' = [tasks EXCEPT ![t].pc = "sleep",
                                       ![t].remaining = config.delay_seconds - elapsed]
             /\ UNCHANGED <<since_request, throttle_locks>>
        ELSE /\ since_request' = [since_request EXCEPT ![domain] = 0]
             /\ tasks' = [tasks EXCEPT ![t].pc = "fetch", ![t].attempts = 1]
             /\ UNCHANGED throttle_locks
  /\ UNCHANGED <<staticVars, counterVars, frontierVars, results, active_tasks, semaphore,
                 robotsVars, dispVars, consumerVars>>

\* ThrottleEnter with one lock for all domains, as RobotsCache has
ThrottleEnterGlobalLock(t) ==
  /\ tasks[t].pc = "throttle"
  /\ LET domain  == ThrottleDomain(tasks[t].url)
         elapsed == since_request[domain]
     IN /\ \A n \in Netlocs : throttle_locks[n] = 0
        /\ IF elapsed < config.delay_seconds
           THEN /\ throttle_locks' = [throttle_locks EXCEPT ![domain] = t]
                /\ tasks' = [tasks EXCEPT ![t].pc = "sleep",
                                          ![t].remaining = config.delay_seconds - elapsed]
                /\ UNCHANGED since_request
           ELSE /\ since_request' = [since_request EXCEPT ![domain] = 0]
                /\ tasks' = [tasks EXCEPT ![t].pc = "fetch", ![t].attempts = 1]
                /\ UNCHANGED throttle_locks
  /\ UNCHANGED <<staticVars, counterVars, frontierVars, results, active_tasks, semaphore,
                 robotsVars, dispVars, consumerVars>>

\* DomainThrottler.wait takes the domain's lock: sleeps, or records the time and fetches
ThrottleEnter(t) ==
  /\ tasks[t].pc = "throttle"
  /\ LET domain  == ThrottleDomain(tasks[t].url)
         elapsed == since_request[domain]
     IN /\ throttle_locks[domain] = 0
        /\ IF elapsed < config.delay_seconds
           THEN /\ throttle_locks' = [throttle_locks EXCEPT ![domain] = t]
                /\ tasks' = [tasks EXCEPT ![t].pc = "sleep",
                                          ![t].remaining = config.delay_seconds - elapsed]
                /\ UNCHANGED since_request
           ELSE /\ since_request' = [since_request EXCEPT ![domain] = 0]
                /\ tasks' = [tasks EXCEPT ![t].pc = "fetch", ![t].attempts = 1]
                /\ UNCHANGED throttle_locks
  /\ UNCHANGED <<staticVars, counterVars, frontierVars, results, active_tasks, semaphore,
                 robotsVars, dispVars, consumerVars>>

\* asyncio.sleep in DomainThrottler.wait ends: the time is recorded, the lock released
SleepReturn(t) ==
  /\ tasks[t].pc = "sleep"
  /\ tasks[t].remaining = 0
  /\ LET domain == ThrottleDomain(tasks[t].url)
     IN /\ since_request' = [since_request EXCEPT ![domain] = 0]
        /\ throttle_locks' = [throttle_locks EXCEPT ![domain] = 0]
  /\ tasks' = [tasks EXCEPT ![t].pc = "fetch", ![t].attempts = 1]
  /\ UNCHANGED <<staticVars, counterVars, frontierVars, results, active_tasks, semaphore,
                 robotsVars, dispVars, consumerVars>>

\* FetchRaise with the failed task put back on the frontier
FetchRaiseRequeue(t) ==
  /\ tasks[t].pc = "fetch"
  /\ IF tasks[t].attempts >= MaxAttempts
     THEN /\ pages_failed' = pages_failed + 1
          /\ queue' = Append(queue, [url |-> tasks[t].url, depth |-> tasks[t].depth,
                                     parent |-> tasks[t].parent])
          /\ Return(t, "failed")
     ELSE /\ tasks' = [tasks EXCEPT ![t].pc = "retry_sleep",
                                    ![t].remaining = RetryWait(tasks[t].attempts)]
          /\ UNCHANGED <<pages_failed, active_tasks, semaphore, queue>>
  /\ UNCHANGED <<staticVars, pages_crawled, pages_skipped, visited, enqueued, results,
                 robotsVars, throttleVars, dispVars, consumerVars>>

\* an attempt of _fetch raises: tenacity waits and retries, or gives up with RetryError,
\* which "except Exception" counts as a failed page
FetchRaise(t) ==
  /\ tasks[t].pc = "fetch"
  /\ IF tasks[t].attempts >= MaxAttempts
     THEN /\ pages_failed' = pages_failed + 1
          /\ Return(t, "failed")
     ELSE /\ tasks' = [tasks EXCEPT ![t].pc = "retry_sleep",
                                    ![t].remaining = RetryWait(tasks[t].attempts)]
          /\ UNCHANGED <<pages_failed, active_tasks, semaphore>>
  /\ UNCHANGED <<staticVars, pages_crawled, pages_skipped, frontierVars, results, robotsVars,
                 throttleVars, dispVars, consumerVars>>

\* the wait between two attempts ends: the next attempt starts
RetryReturn(t) ==
  /\ tasks[t].pc = "retry_sleep"
  /\ tasks[t].remaining = 0
  /\ tasks' = [tasks EXCEPT ![t].pc = "fetch", ![t].attempts = @ + 1]
  /\ UNCHANGED <<staticVars, counterVars, frontierVars, results, active_tasks, semaphore,
                 robotsVars, throttleVars, dispVars, consumerVars>>

\* process_url: "if depth < self.config.max_depth"
ShouldFollowAtMaxDepth(depth) == depth <= config.max_depth
ShouldFollow(depth) == depth < config.max_depth

\* IsHtml by the status instead of the content type
IsHtmlAnyType(response) == response.status = 200

\* the content type test of process_url
IsHtml(response) == response.ctype \in {"text/html", "application/xhtml+xml"}

\* client.get returns a response: the rest of process_url runs without suspension; when
\* _extract_links raises, the page is already in results and "except Exception" counts a
\* failure
FetchResponse(t, response) ==
  /\ tasks[t].pc = "fetch"
  /\ IF ~IsHtml(response)
     THEN /\ Return(t, "dropped")
          /\ UNCHANGED <<pages_crawled, pages_failed, results, frontierVars>>
     ELSE LET me     == tasks[t]
              result == [url |-> me.url, status_code |-> response.status,
                         html |-> response.hrefs, depth |-> me.depth, parent_url |-> me.parent,
                         launched |-> Len(tasks)]   \* history: tasks created so far
              raised == ShouldFollow(me.depth) /\ ExtractRaises(response.hrefs, me.url)
              found  == IF ShouldFollow(me.depth) /\ ~raised
                        THEN DiscoverLinks(_extract_links(response.hrefs, me.url),
                                           visited, queue, enqueued, me.depth, me.url)
                        ELSE [visited |-> visited, queue |-> queue, enqueued |-> enqueued]
          IN /\ results' = Append(results, result)
             /\ pages_crawled' = pages_crawled + 1
             /\ pages_failed' = IF raised THEN pages_failed + 1 ELSE pages_failed
             /\ visited' = found.visited
             /\ queue' = found.queue
             /\ enqueued' = found.enqueued
             /\ Return(t, IF raised THEN "failed_after_emit" ELSE "crawled")
  /\ UNCHANGED <<staticVars, pages_skipped, robotsVars, throttleVars, dispVars,
                 consumerVars>>

\* ------------------------------------------------------------------------
\* The crawl as a whole
\* ------------------------------------------------------------------------
Next ==
  \/ CrawlStart
  \/ Launch
  \/ WaitReturn
  \/ Gather
  \/ YieldResult
  \/ CrawlEnd
  \/ CancelJob
  \/ Tick
  \/ \E t \in active_tasks : Start(t)
  \/ \E t \in active_tasks : RobotsEnter(t)
  \/ \E t \in active_tasks : \E outcome \in RobotsOutcomes : RobotsReturn(t, outcome)
  \/ \E t \in active_tasks : ThrottleEnter(t)
  \/ \E t \in active_tasks : SleepReturn(t)
  \/ \E t \in active_tasks : FetchRaise(t)
  \/ \E t \in active_tasks : RetryReturn(t)
  \/ \E t \in active_tasks : \E response \in site[tasks[t].url] : FetchResponse(t, response)

Spec == Init /\ [][Next]_vars

\* The event loop runs every callback that is ready, each request and each sleep ends,
\* and the consumer keeps iterating; nothing obliges anybody to cancel the job.
Fairness ==
  /\ WF_vars(CrawlStart \/ Launch \/ WaitReturn \/ Gather \/ YieldResult \/ CrawlEnd)
  /\ WF_vars(Tick)
  /\ WF_vars(\E t \in active_tasks :
               \/ Start(t) \/ RobotsEnter(t) \/ ThrottleEnter(t) \/ SleepReturn(t)
               \/ FetchRaise(t) \/ RetryReturn(t)
               \/ \E outcome \in RobotsOutcomes : RobotsReturn(t, outcome)
               \/ \E response \in site[tasks[t].url] : FetchResponse(t, response))

FairSpec == Spec /\ Fairness

\* ------------------------------------------------------------------------
\* DomainThrottler on its own: MaxCallers coroutines call wait() at any time
\* ------------------------------------------------------------------------
\* the callers of wait(), each about to take the lock of its URL's domain
ThrottlerCallers ==
  [1..MaxCallers ->
     {[NewTask([url |-> u, depth |-> 0, parent |-> <<>>]) EXCEPT !.pc = "throttle"] :
        u \in {UA, UB}}]

\* DomainThrottler.__init__, with the callers created and running
ThrottlerInit ==
  /\ site = AnySite
  /\ config \in {c \in Configs : /\ c.seed_urls = <<>> /\ c.max_pages = 1 /\ c.max_depth = 0
                                 /\ c.concurrency = 1 /\ ~c.respect_robots_txt}
  /\ tasks \in ThrottlerCallers
  /\ active_tasks = 1..MaxCallers
  /\ since_request = [n \in Netlocs |-> config.delay_seconds]
  /\ throttle_locks = [n \in Netlocs |-> 0]
  /\ dpc = "wait"
  /\ visited = {} /\ allowed_domains = {}
  /\ pages_crawled = 0 /\ pages_failed = 0 /\ pages_skipped = 0
  /\ queue = <<>> /\ results = <<>> /\ enqueued = <<>>
  /\ semaphore = 0 /\ wait_set = {}
  /\ robots_cache = [o \in {} |-> <<>>] /\ robots_lock = 0
  /\ robots_fetches = [o \in Origins |-> 0]
  /\ robots_source = [o \in Origins |-> "none"]
  /\ robots_denied = [o \in Origins |-> 0]
  /\ crawl_results = <<>> /\ job_status = "RUNNING"
  /\ NoChunking
  /\ NoPreprocessing
  /\ NoNormalising
  /\ NoPipeline

ThrottlerNext ==
  \/ \E t \in active_tasks : ThrottleEnter(t)
  \/ \E t \in active_tasks : SleepReturn(t)
  \/ Tick

ThrottlerSpec == ThrottlerInit /\ [][ThrottlerNext]_vars

\* ------------------------------------------------------------------------
\* The documents of the model
\* ------------------------------------------------------------------------
\* s repeated n times
Repeat(s, n) == [i \in 1..(n * Len(s)) |-> s[((i - 1) % Len(s)) + 1]]

\* clean_text values: nothing, whitespace, short texts with plain and with irregular
\* separators, and texts of more than MinChunkSize tokens made of words, of digits
\* without any separator, of sentences, and of paragraphs one of which is oversized
DocTexts ==
  { <<>>,
    <<" ", "\n", " ">>,
    <<" ", "a", " ", "b", ".", " ", "a", "\n">>,
    <<"a", ".", "\n", "b", ".">>,
    <<"a", "\n", "\n", "\n", "b">>,
    Repeat(<<"a", " ">>, LongWords),
    Repeat(<<"1", "1", "1">>, LongDigitGroups),
    Repeat(<<"a", " ", "b", ".", " ">>, LongSentences),
    Repeat(<<"a", " ", "b", ".", "\n", "\n">>, ShortParagraphs)
      \o Repeat(<<"b", " ">>, LongWords) \o <<"\n", "\n", "a", ".">> }

\* the ProcessedDocument values handed to the chunker
Documents == {[url |-> u, clean_text |-> t] : u \in {UA, UB}, t \in DocTexts}

\* ------------------------------------------------------------------------
\* DocumentChunker
\* ------------------------------------------------------------------------
\* DocumentChunker._count_tokens
_count_tokens(text) == Len(encode(text))

\* the separators of _recursive_chunk
Separators ==
  << <<"\n", "\n">>, <<"\n">>, <<".", " ">>, <<"!", " ">>, <<"?", " ">>, <<";", " ">>,
     <<",", " ">>, <<" ">> >>

\* "decoded = self._encoder.decode(chunk_tokens).strip(); if decoded: chunks.append(decoded)"
AppendDecoded(cs, chunk_tokens) ==
  IF strip(decode(chunk_tokens)) # <<>> THEN Append(cs, strip(decode(chunk_tokens))) ELSE cs

\* the windows range(0, len(tokens), step) visits: how many there are
RangeLen(n, step) == (n + step - 1) \div step

\* _force_split with slices one token longer than chunk_size
ForceSplitOneMore(text) ==
  Iterate(LAMBDA cs, j : AppendDecoded(cs, PySlice(encode(text), (j - 1) * chunk_config.chunk_size,
                                                   j * chunk_config.chunk_size + 1)),
          <<>>, 1, RangeLen(Len(encode(text)), chunk_config.chunk_size))

\* DocumentChunker._force_split
_force_split(text) ==
  Iterate(LAMBDA cs, j : AppendDecoded(cs, PySlice(encode(text), (j - 1) * chunk_config.chunk_size,
                                                   j * chunk_config.chunk_size)),
          <<>>, 1, RangeLen(Len(encode(text)), chunk_config.chunk_size))

\* prev_tokens[-overlap_tokens:]
LastTokens(tokens, n) ==
  IF n = 0 THEN tokens ELSE SubSeq(tokens, Len(tokens) - n + 1, Len(tokens))

\* the overlap text _apply_overlap takes from the previous chunk
OverlapText(prev) ==
  IF Len(encode(prev)) > chunk_config.chunk_overlap
  THEN decode(LastTokens(encode(prev), chunk_config.chunk_overlap))
  ELSE prev

\* DocumentChunker._apply_overlap
_apply_overlap(cs) ==
  IF Len(cs) <= 1 THEN cs
  ELSE [i \in 1..Len(cs) |->
          IF i = 1 THEN cs[1] ELSE strip(OverlapText(cs[i - 1]) \o <<" ">> \o cs[i])]

\* "if self.config.chunk_overlap > 0 and len(chunks) > 1: chunks = self._apply_overlap(chunks)"
OverlapStep(cs) ==
  IF chunk_config.chunk_overlap > 0 /\ Len(cs) > 1 THEN _apply_overlap(cs) ELSE cs

\* the candidate of the loops: the running chunk, the joiner and the next piece
Candidate(current, joiner, piece) == IF current # <<>> THEN current \o joiner \o piece ELSE piece

RECURSIVE _recursive_split(_, _, _)

\* _recursive_split, "if current.strip()": the running chunk is appended, or split by
\* the next separator when it is oversized
FlushCurrent(cs, current, separators, depth) ==
  IF strip(current) = <<>> THEN cs
  ELSE IF _count_tokens(current) <= chunk_config.chunk_size
       THEN Append(cs, strip(current))
       ELSE cs \o _recursive_split(current, separators, depth + 1)

\* the loop body of _recursive_split losing the part that did not fit
RecursiveStepDropsPart(st, part, separators, depth) ==
  IF _count_tokens(Candidate(st.current, separators[depth + 1], part)) <= chunk_config.chunk_size
  THEN [chunks |-> st.chunks, current |-> Candidate(st.current, separators[depth + 1], part)]
  ELSE [chunks |-> FlushCurrent(st.chunks, st.current, separators, depth), current |-> <<>>]

\* _recursive_split, the body of "for part in parts"
RecursiveStep(st, part, separators, depth) ==
  IF _count_tokens(Candidate(st.current, separators[depth + 1], part)) <= chunk_config.chunk_size
  THEN [chunks |-> st.chunks, current |-> Candidate(st.current, separators[depth + 1], part)]
  ELSE [chunks |-> FlushCurrent(st.chunks, st.current, separators, depth), current |-> part]

\* _recursive_split, what follows the loop
RecursiveEnd(st, separators, depth) ==
  OverlapStep(FlushCurrent(st.chunks, st.current, separators, depth))

\* _recursive_split, from "parts = text.split(sep)" on
RecursiveParts(parts, separators, depth) ==
  RecursiveEnd(Iterate(LAMBDA st, k : RecursiveStep(st, parts[k], separators, depth),
                       [chunks |-> <<>>, current |-> <<>>], 1, Len(parts)),
               separators, depth)

\* DocumentChunker._recursive_split
_recursive_split(text, separators, depth) ==
  IF _count_tokens(text) <= chunk_config.chunk_size
  THEN IF strip(text) # <<>> THEN <<strip(text)>> ELSE <<>>
  ELSE IF depth >= Len(separators) THEN _force_split(text)
  ELSE RecursiveParts(split(text, separators[depth + 1]), separators, depth)

\* DocumentChunker._recursive_chunk
_recursive_chunk(text) == _recursive_split(text, Separators, 0)

\* _sliding_window_chunk, the body of the loop for the j-th window: i is where it starts
SlidingStep(st, tokens, i) ==
  IF st.broke THEN st
  ELSE [chunks |-> AppendDecoded(st.chunks, PySlice(tokens, i, i + chunk_config.chunk_size)),
        broke  |-> i + chunk_config.chunk_size >= Len(tokens)]

\* _sliding_window_chunk for the tokens of the text and max(1, step)
SlidingWindows(tokens, step) ==
  Iterate(LAMBDA st, j : SlidingStep(st, tokens, (j - 1) * step),
          [chunks |-> <<>>, broke |-> FALSE], 1, RangeLen(Len(tokens), step)).chunks

\* DocumentChunker._sliding_window_chunk
_sliding_window_chunk(text) ==
  SlidingWindows(encode(text), Max({1, chunk_config.chunk_size - chunk_config.chunk_overlap}))

\* one position of the scan of re.split(r"(?<=[.!?])\s+", text): whitespace that
\* follows ".", "!" or "?" closes the running part, and the whole run is dropped
SentenceSplitStep(s, st, k) ==
  IF k >= st.from /\ k > 1 /\ s[k] \in Whitespace /\ s[k - 1] \in SentenceEnd
  THEN [parts |-> Append(st.parts, Slice(s, st.from, k - 1)),
        from  |-> RunEnd(s, k, Whitespace) + 1]
  ELSE st

\* re.split(r"(?<=[.!?])\s+", text)
SplitSentences(s) ==
  ClosedParts(s, Iterate(LAMBDA st, k : SentenceSplitStep(s, st, k),
                         [parts |-> <<>>, from |-> 1], 1, Len(s)))

\* "if current.strip(): chunks.append(current.strip())"
AppendCurrent(cs, current) == IF strip(current) # <<>> THEN Append(cs, strip(current)) ELSE cs

\* _sentence_chunk, the body of "for sentence in sentences"
SentenceStep(st, sentence) ==
  IF _count_tokens(Candidate(st.current, <<" ">>, sentence)) <= chunk_config.chunk_size
  THEN [chunks |-> st.chunks, current |-> Candidate(st.current, <<" ">>, sentence)]
  ELSE IF _count_tokens(sentence) > chunk_config.chunk_size
       THEN [chunks  |-> AppendCurrent(st.chunks, st.current) \o _force_split(sentence),
             current |-> <<>>]
       ELSE [chunks |-> AppendCurrent(st.chunks, st.current), current |-> sentence]

\* what follows the loop of _sentence_chunk and of _semantic_chunk
FlushAndOverlap(st) == OverlapStep(AppendCurrent(st.chunks, st.current))

\* _sentence_chunk for the sentences of the text
SentenceChunks(sentences) ==
  FlushAndOverlap(Iterate(LAMBDA st, k : SentenceStep(st, sentences[k]),
                          [chunks |-> <<>>, current |-> <<>>], 1, Len(sentences)))

\* DocumentChunker._sentence_chunk
_sentence_chunk(text) == SentenceChunks(SplitSentences(text))

\* one position of the scan of re.split(r"\n\n+", text): two newlines close the running
\* part, and the whole run of newlines is dropped
ParagraphSplitStep(s, st, k) ==
  IF k >= st.from /\ k < Len(s) /\ s[k] \in Newlines /\ s[k + 1] \in Newlines
  THEN [parts |-> Append(st.parts, Slice(s, st.from, k - 1)),
        from  |-> RunEnd(s, k, Newlines) + 1]
  ELSE st

\* re.split(r"\n\n+", text)
SplitParagraphs(s) ==
  ClosedParts(s, Iterate(LAMBDA st, k : ParagraphSplitStep(s, st, k),
                         [parts |-> <<>>, from |-> 1], 1, Len(s)))

\* _semantic_chunk, the body of "for para in paragraphs", para being stripped already
SemanticStep(st, para) ==
  IF para = <<>> THEN st
  ELSE IF _count_tokens(Candidate(st.current, <<"\n", "\n">>, para)) <= chunk_config.chunk_size
       THEN [chunks |-> st.chunks, current |-> Candidate(st.current, <<"\n", "\n">>, para)]
  ELSE IF _count_tokens(para) > chunk_config.chunk_size
       THEN [chunks  |-> AppendCurrent(st.chunks, st.current) \o _recursive_chunk(para),
             current |-> <<>>]
       ELSE [chunks |-> AppendCurrent(st.chunks, st.current), current |-> para]

\* _semantic_chunk for the paragraphs of the text
SemanticChunks(paragraphs) ==
  FlushAndOverlap(Iterate(LAMBDA st, k : SemanticStep(st, strip(paragraphs[k])),
                          [chunks |-> <<>>, current |-> <<>>], 1, Len(paragraphs)))

\* DocumentChunker._semantic_chunk
_semantic_chunk(text) == SemanticChunks(SplitParagraphs(text))

\* chunk_document, the dispatch on the strategy
ChunksText(text) ==
  IF chunk_config.strategy = "recursive" THEN _recursive_chunk(text)
  ELSE IF chunk_config.strategy = "sliding_window" THEN _sliding_window_chunk(text)
  ELSE IF chunk_config.strategy = "sentence" THEN _sentence_chunk(text)
  ELSE IF chunk_config.strategy = "semantic" THEN _semantic_chunk(text)
  ELSE _recursive_chunk(text)

\* chunk_document with chunks numbered from one
StampChunksFromOne(d, chunks_text) ==
  [i \in 1..Len(chunks_text) |->
     [document_url |-> d.url, text |-> chunks_text[i],
      token_count |-> Len(encode(chunks_text[i])),
      chunk_index |-> i, total_chunks |-> Len(chunks_text)]]

\* chunk_document, the DocumentChunk made of each text
StampChunks(d, chunks_text) ==
  [i \in 1..Len(chunks_text) |->
     [document_url |-> d.url, text |-> chunks_text[i],
      token_count |-> Len(encode(chunks_text[i])),
      chunk_index |-> i - 1, total_chunks |-> Len(chunks_text)]]

\* DocumentChunker.chunk_document
chunk_document(d) ==
  IF strip(d.clean_text) = <<>> THEN <<>>
  ELSE StampChunks(d, ChunksText(strip(d.clean_text)))

\* ------------------------------------------------------------------------
\* The chunking stage: a ChunkConfig is built, a DocumentChunker chunks one document
\* ------------------------------------------------------------------------
ChunkerInit ==
  /\ NoCrawl
  /\ chunk_args \in ChunkArgs
  /\ chunk_config = [ok |-> FALSE, strategy |-> "recursive", chunk_size |-> 0,
                     chunk_overlap |-> 0]
  /\ chunk_doc = [url |-> <<>>, clean_text |-> <<>>]
  /\ chunks = <<>>
  /\ cpc = "new"
  /\ NoPreprocessing
  /\ NoNormalising

\* ChunkConfig(**chunk_args): the configuration, or a ValidationError
Construct ==
  /\ cpc = "new"
  /\ chunk_config' = ChunkConfig(chunk_args)
  /\ cpc' = IF ChunkConfig(chunk_args).ok THEN "ready" ELSE "rejected"
  /\ UNCHANGED <<crawlVars, preprocessorVars, normaliserVars, pipelineVars, chunk_args,
                 chunk_doc, chunks>>

\* DocumentChunker(chunk_config).chunk_document(doc)
ChunkDocument ==
  /\ cpc = "ready"
  /\ \E d \in Documents :
       /\ chunk_doc' = d
       /\ chunks' = chunk_document(d)
  /\ cpc' = "chunked"
  /\ UNCHANGED <<crawlVars, preprocessorVars, normaliserVars, pipelineVars, chunk_args,
                 chunk_config>>

ChunkerNext == Construct \/ ChunkDocument

ChunkerSpec == ChunkerInit /\ [][ChunkerNext]_vars

\* ------------------------------------------------------------------------
\* SimHasher
\* ------------------------------------------------------------------------
\* str.lower() over the letters of the model
lower(s) ==
  [i \in 1..Len(s) |-> IF s[i] = "A" THEN "a" ELSE IF s[i] = "B" THEN "b" ELSE s[i]]

\* one character of the scan of text.split(): whitespace closes the running word
WordStep(s, st, k) ==
  IF s[k] \in Whitespace
  THEN [words |-> IF st.word # <<>> THEN Append(st.words, st.word) ELSE st.words,
        word  |-> <<>>]
  ELSE [words |-> st.words, word |-> Append(st.word, s[k])]

\* the words a scan leaves
ClosedWords(st) == IF st.word # <<>> THEN Append(st.words, st.word) ELSE st.words

\* text.split(): the words between runs of whitespace
SplitWords(s) ==
  ClosedWords(Iterate(LAMBDA st, k : WordStep(s, st, k),
                      [words |-> <<>>, word |-> <<>>], 1, Len(s)))

\* " ".join(words)
JoinWords(words) ==
  Iterate(LAMBDA st, k : IF k = 1 THEN words[1] ELSE st \o <<" ">> \o words[k],
          <<>>, 1, Len(words))

\* the characters a lowercased shingle is made of, in the order of their numbers
ShingleAlphabet == <<"a", "b", "1", " ", ".", ",", "!", "?", ";", "\n", "\t">>

\* the number of a character
Ord(c) == CHOOSE i \in 1..Len(ShingleAlphabet) : ShingleAlphabet[i] = c

\* a number that stands for the bytes of a shingle
ShingleCode(sh) ==
  Iterate(LAMBDA c, k : (c * 31 + Ord(sh[k])) % 65521, 7, 1, Len(sh))

\* xxhash.xxh128(shingle).intdigest(): the positions of the bits that are set, a fixed
\* function of the bytes of the shingle that mixes them
xxh128(sh) ==
  {j \in 0..(HashBits - 1) : ((ShingleCode(sh) * (2 * j + 1) + j * j) % 257) % 2 = 1}

\* SimHasher.hash, the shingles: " ".join(tokens[i : i + 3]) for i in range(max(1, n - 2))
Shingles(tokens) ==
  [i \in 1..Max({1, Len(tokens) - 2}) |-> JoinWords(PySlice(tokens, i - 1, i + 2))]

\* SimHasher.hash, the fingerprint of the shingle hashes: bit j is set where v[j] > 0, v[j]
\* being the hashes that have the bit minus those that do not
Fingerprint(hashes) ==
  {j \in 0..(HashBits - 1) :
     2 * Cardinality({i \in 1..Len(hashes) : j \in hashes[i]}) > Len(hashes)}

\* the shingle hashes of a list of tokens
ShingleHashes(tokens) == [i \in 1..Len(Shingles(tokens)) |-> xxh128(Shingles(tokens)[i])]

\* SimHasher.hash: an integer of HashBits bits, as the set of the positions of its 1s
hash(text) ==
  IF SplitWords(lower(text)) = <<>> THEN {}
  ELSE CHOOSE f \in {Fingerprint(h) : h \in {ShingleHashes(SplitWords(lower(text)))}} : TRUE

\* SimHasher.similarity, 1.0 - hamming / bits, as the number of bits out of HashBits on
\* which the two fingerprints agree
similarity(hash1, hash2) ==
  HashBits - Cardinality((hash1 \ hash2) \cup (hash2 \ hash1))

\* "similarity >= self.config.dedup_threshold", the threshold in hundredths
MeetsThreshold(sim, threshold) == sim * 100 >= threshold * HashBits

\* ------------------------------------------------------------------------
\* The documents handed to the preprocessor
\* ------------------------------------------------------------------------
\* a text of sixteen words
TextOne ==
  <<"a", "b", " ", "b", "a", " ", "a", "a", "b", " ", "a", "b", "b", " ", "b", "a",
    "b", " ", "a", "a", " ", "b", "b", " ", "a", "b", " ", "a", "b", "a", " ", "b",
    "b", "a", " ", "b", "a", "a", " ", "a", "b", " ", "b", "b", " ", "a", "a", "b",
    " ", "b", "a", " ", "a">>

\* the same words with a capital, doubled spaces, three newlines and a tab
TextOneSpaced ==
  <<"A", "b", " ", " ", "b", "a", " ", "a", "a", "b", " ", "a", "b", "b", " ", "b",
    "a", "b", " ", "a", "a", "\n", "\n", "\n", "b", "b", " ", "a", "b", " ", "a", "b",
    "a", " ", "b", "b", "a", " ", "b", "a", "a", " ", "a", "b", "\t", "b", "b", " ",
    "a", "a", "b", " ", "b", "a", " ", "a">>

\* the first text with its first word changed
TextOneEdited ==
  <<"b", "a", " ", "b", "a", " ", "a", "a", "b", " ", "a", "b", "b", " ", "b", "a",
    "b", " ", "a", "a", " ", "b", "b", " ", "a", "b", " ", "a", "b", "a", " ", "b",
    "b", "a", " ", "b", "a", "a", " ", "a", "b", " ", "b", "b", " ", "a", "a", "b",
    " ", "b", "a", " ", "a">>

\* other words
TextTwo ==
  <<"b", "b", " ", "a", " ", "b", "a", "b", " ", "b", "a", " ", "a", "b", " ", "a",
    "a", "a", " ", "b", " ", "a", "b", "b", " ", "b", "a", " ", "b", "b", "b", " ",
    "a", "a", "b", " ", "a", " ", "b", "a", " ", "b", "a", "b", " ", "a", "a", " ",
    "b", "b">>

\* other words again
TextThree ==
  <<"a", " ", "b", " ", "a", " ", "b", " ", "a", " ", "b", " ", "a", " ", "b", " ",
    "a", " ", "b", " ", "a", " ", "b", " ", "a", " ", "b", " ", "a", " ", "b", " ",
    "a", " ", "b", " ", "a", " ", "b", " ", "a", " ", "b", " ", "a", " ", "b", " ",
    "a", " ", "b", " ", "a">>

\* the first text with its last word changed
TextFour ==
  <<"a", "b", " ", "b", "a", " ", "a", "a", "b", " ", "a", "b", "b", " ", "b", "a",
    "b", " ", "a", "a", " ", "b", "b", " ", "a", "b", " ", "a", "b", "a", " ", "b",
    "b", "a", " ", "b", "a", "a", " ", "a", "b", " ", "b", "b", " ", "a", "a", "b",
    " ", "b", "a", " ", "b">>

\* the first text with its last but one word changed
TextFive ==
  <<"a", "b", " ", "b", "a", " ", "a", "a", "b", " ", "a", "b", "b", " ", "b", "a",
    "b", " ", "a", "a", " ", "b", "b", " ", "a", "b", " ", "a", "b", "a", " ", "b",
    "b", "a", " ", "b", "a", "a", " ", "a", "b", " ", "b", "b", " ", "a", "a", "b",
    " ", "a", " ", "a">>

\* the first text with another first word, closer to the first text than to its edited
\* version
TextSix ==
  <<"a", "a", "b", " ", "b", "a", " ", "a", "a", "b", " ", "a", "b", "b", " ", "b",
    "a", "b", " ", "a", "a", " ", "b", "b", " ", "a", "b", " ", "a", "b", "a", " ",
    "b", "b", "a", " ", "b", "a", "a", " ", "a", "b", " ", "b", "b", " ", "a", "a",
    "b", " ", "b", "a", " ", "a">>

\* fifty-two characters that whitespace normalisation brings down to forty-one
TextPadded ==
  <<"a", "b", " ", " ", "b", "a", " ", " ", "a", "a", "b", " ", " ", "a", "b", "b",
    " ", " ", "b", "a", "b", " ", " ", "a", "a", " ", " ", "b", "b", " ", " ", "a",
    "b", " ", " ", "a", "b", "a", " ", " ", "b", "b", "a", " ", " ", "b", "a", "a",
    " ", " ", "a", "b">>

\* five characters
TextShort ==
  <<"a", "b", " ", "b", "a">>

\* an ExtractedDocument, with what detect_langs answers for its text (language
\* "unknown" with probability 0: no answer, or LangDetectException)
ExtractedDocument(url, main_content, content_hash, language, probability) ==
  [url |-> url, main_content |-> main_content, content_hash |-> content_hash,
   detected |-> [language |-> language, probability |-> probability]]

\* the documents of the model.  content_hash is the hash of main_content, except for the
\* document of http://a/l, which is given the hash of another text.
ExtractedDocuments ==
  { ExtractedDocument(UA, TextOne, "h1", "en", 99),
    ExtractedDocument(UB, TextOne, "h1", "en", 99),
    ExtractedDocument(UAp, TextOneSpaced, "h2", "en", 99),
    ExtractedDocument(UApq, TextOneEdited, "h3", "en", 99),
    ExtractedDocument(UB, TextTwo, "h4", "en", 99),
    ExtractedDocument(UAl, TextThree, "h1", "en", 99),
    ExtractedDocument(UAfrag, TextFour, "h5", "fr", 99),
    ExtractedDocument(UA, TextFive, "h6", "fr", 50),
    ExtractedDocument(UAp, TextPadded, "h7", "unknown", 0),
    ExtractedDocument(UB, TextShort, "h8", "en", 99),
    ExtractedDocument(UAl, TextSix, "h9", "en", 99) }

MainContents == {d.main_content : d \in ExtractedDocuments}

\* ------------------------------------------------------------------------
\* TextPreprocessor
\* ------------------------------------------------------------------------
\* the configurations of the model: fractions are in hundredths
PreprocessConfigs ==
  {[lowercase |-> lc, remove_extra_whitespace |-> ws,
    min_language_confidence |-> DefaultMinLanguageConfidence,
    target_languages |-> tl, dedup_enabled |-> dd[1], dedup_threshold |-> dd[2]] :
     lc \in BOOLEAN, ws \in BOOLEAN, tl \in {{"en"}, {}},
     dd \in {<<FALSE, DefaultDedupThreshold>>, <<TRUE, DefaultDedupThreshold>>, <<TRUE, 90>>}}

\* the characters of s at the positions where Keep(s, k) holds
Filter(s, Keep(_, _)) ==
  Iterate(LAMBDA st, k : IF Keep(s, k) THEN Append(st, s[k]) ELSE st, <<>>, 1, Len(s))

\* re.sub(r"\t", " ", text)
TabsToSpaces(s) == [i \in 1..Len(s) |-> IF s[i] = "\t" THEN " " ELSE s[i]]

\* re.sub(r" {2,}", " ", text): a space that follows a space goes
CollapseSpaces(s) == Filter(s, LAMBDA t, k : ~(t[k] = " " /\ k > 1 /\ t[k - 1] = " "))

\* re.sub(r"\n{3,}", "\n\n", text): a newline that follows two newlines goes
CollapseNewlines(s) ==
  Filter(s, LAMBDA t, k : ~(t[k] = "\n" /\ k > 2 /\ t[k - 1] = "\n" /\ t[k - 2] = "\n"))

\* TextPreprocessor._normalize_whitespace (the texts of the model hold no "\r")
_normalize_whitespace(text) == strip(CollapseNewlines(CollapseSpaces(TabsToSpaces(text))))

\* process, the text after the whitespace and lowercase steps
CleanText(lc, ws, text) ==
  IF lc THEN lower(IF ws THEN _normalize_whitespace(text) ELSE text)
  ELSE IF ws THEN _normalize_whitespace(text) ELSE text

\* CleanText and SimHasher.hash of the texts of the model, computed once
CleanTexts == [lc \in BOOLEAN, ws \in BOOLEAN, t \in MainContents |-> CleanText(lc, ws, t)]
SimHashes ==
  [t \in {CleanTexts[k] : k \in DOMAIN CleanTexts} |-> hash(t)]

\* process, "text" when the short-content test is reached
TextOf(doc) ==
  CleanTexts[pre_config.lowercase, pre_config.remove_extra_whitespace, doc.main_content]

\* process, "if len(text.strip()) < 50"
TooShort(doc) == Len(strip(TextOf(doc))) < MinTextLength

\* the language step without the confidence test
OffLanguageAnyConfidence(doc) ==
  /\ pre_config.target_languages # {}
  /\ doc.detected.language \notin pre_config.target_languages

\* process, the language step: off target with enough confidence
OffLanguage(doc) ==
  /\ pre_config.target_languages # {}
  /\ doc.detected.language \notin pre_config.target_languages
  /\ doc.detected.probability >= pre_config.min_language_confidence

\* process, "if self.config.dedup_enabled and doc.content_hash in self._exact_hashes"
ExactDuplicate(doc) == pre_config.dedup_enabled /\ doc.content_hash \in _exact_hashes

\* the near-duplicate loop that looks at the latest fingerprint only
NearDuplicateOfLast(sim_hash) ==
  /\ _seen_hashes # <<>>
  /\ MeetsThreshold(similarity(sim_hash, _seen_hashes[Len(_seen_hashes)].simhash),
                    pre_config.dedup_threshold)

\* process, the loop over self._seen_hashes: is_duplicate
NearDuplicate(sim_hash) ==
  \E i \in 1..Len(_seen_hashes) :
    MeetsThreshold(similarity(sim_hash, _seen_hashes[i].simhash), pre_config.dedup_threshold)

\* process, why the document is returned or not
Outcome(doc) ==
  IF TooShort(doc) THEN "too_short"
  ELSE IF OffLanguage(doc) THEN "off_language"
  ELSE IF ExactDuplicate(doc) THEN "exact_duplicate"
  ELSE IF pre_config.dedup_enabled /\ NearDuplicate(SimHashes[TextOf(doc)])
       THEN "near_duplicate"
  ELSE "accepted"

\* self._exact_hashes with the hash of a document that is never looked up again
ExactHashesForgotten(doc) == _exact_hashes

\* self._exact_hashes after process(doc): "self._exact_hashes.add(doc.content_hash)" is
\* reached by the documents that pass the three first steps
ExactHashesAfter(doc) ==
  IF Outcome(doc) \in {"too_short", "off_language", "exact_duplicate"} THEN _exact_hashes
  ELSE _exact_hashes \cup {doc.content_hash}

\* SeenHashesAfter with the append after "if is_duplicate: return None"
SeenHashesAfterAcceptedOnly(doc) ==
  IF pre_config.dedup_enabled /\ Outcome(doc) = "accepted"
  THEN Append(_seen_hashes, [simhash |-> SimHashes[TextOf(doc)], url |-> doc.url])
  ELSE _seen_hashes

\* self._seen_hashes after process(doc): "self._seen_hashes.append((sim_hash, doc.url))"
\* is reached, with dedup enabled, by the documents that pass the three first steps
SeenHashesAfter(doc) ==
  IF pre_config.dedup_enabled /\ Outcome(doc) \in {"near_duplicate", "accepted"}
  THEN Append(_seen_hashes, [simhash |-> SimHashes[TextOf(doc)], url |-> doc.url])
  ELSE _seen_hashes

\* process, the ProcessedDocument returned
ProcessedDocument(doc) ==
  [url |-> doc.url, clean_text |-> TextOf(doc), language |-> doc.detected.language,
   language_confidence |-> doc.detected.probability, content_hash |-> doc.content_hash,
   word_count |-> Len(SplitWords(TextOf(doc))), is_duplicate |-> FALSE]

\* TextPreprocessor.process: the list is empty for None
process(doc) == IF Outcome(doc) = "accepted" THEN <<ProcessedDocument(doc)>> ELSE <<>>

\* ------------------------------------------------------------------------
\* The preprocessing stage
\* ------------------------------------------------------------------------
\* TextPreprocessor.__init__
PreprocessorInit ==
  /\ NoCrawl
  /\ NoChunking
  /\ NoNormalising
  /\ pre_config \in PreprocessConfigs
  /\ _seen_hashes = <<>>
  /\ _exact_hashes = {}
  /\ calls = <<>>

\* TextPreprocessor.process(doc), for any document
Process ==
  /\ Len(calls) < MaxProcessCalls
  /\ \E doc \in ExtractedDocuments :
       /\ _exact_hashes' = ExactHashesAfter(doc)
       /\ _seen_hashes' = SeenHashesAfter(doc)
       /\ calls' = Append(calls, [doc |-> doc, reason |-> Outcome(doc),
                                  result |-> process(doc)])
  /\ UNCHANGED <<crawlVars, chunkerVars, normaliserVars, pipelineVars, pre_config>>

PreprocessorNext == Process

PreprocessorSpec == PreprocessorInit /\ [][PreprocessorNext]_vars

\* ------------------------------------------------------------------------
\* _normalise_url_full on the URLs a page can link to
\* ------------------------------------------------------------------------
\* the paths, queries and fragments the URLs are written from (<<>>: none)
UrlPaths ==
  { <<>>, <<"/">>, <<"/", "p">>, <<"/", "p", "/">>, <<"/", "p", "/", "/">>,
    <<"/", "p", "/", "l">>, <<"/", "p", ";", "x">>, <<"/", "p", ";", "x", "/">> }
UrlQueries == { <<>>, <<"q">> }
UrlFragments == { <<>>, <<"f">> }

\* scheme://netloc path ?query #fragment
UrlOf(netloc, path, query, fragment) ==
  Http \o netloc \o path \o (IF query # <<>> THEN <<"?">> \o query ELSE <<>>)
       \o (IF fragment # <<>> THEN <<"#">> \o fragment ELSE <<>>)

\* the URLs handed to _normalise_url_full, each with its parts
NormaliserUrls ==
  {[netloc |-> n, path |-> p, query |-> q, fragment |-> f, url |-> UrlOf(n, p, q, f)] :
     n \in Netlocs, p \in UrlPaths, q \in UrlQueries, f \in UrlFragments}

NormaliserInit ==
  /\ NoCrawl
  /\ NoChunking
  /\ NoPreprocessing
  /\ norm_url \in NormaliserUrls
  /\ norm_results = <<>>

\* self._normalise_url_full(url), on the URL first and then on what it returned
Normalise ==
  /\ Len(norm_results) < 2
  /\ norm_results' =
       Append(norm_results,
              _normalise_url_full(IF norm_results = <<>> THEN norm_url.url
                                  ELSE norm_results[Len(norm_results)]))
  /\ UNCHANGED <<crawlVars, chunkerVars, preprocessorVars, pipelineVars, norm_url>>

NormaliserNext == Normalise

NormaliserSpec == NormaliserInit /\ [][NormaliserNext]_vars

\* ------------------------------------------------------------------------
\* Properties
\* ------------------------------------------------------------------------
TypeOK ==
  /\ pages_crawled \in Nat /\ pages_failed \in Nat /\ pages_skipped \in Nat
  /\ semaphore \in 0..config.concurrency
  /\ active_tasks \subseteq 1..Len(tasks)
  /\ dpc \in {"init", "launch", "wait", "gather", "yield", "done"}

\* C1: the result list and the pages_crawled counter never hold more than max_pages
\* pages, whatever the interleaving of the tasks and the dispatcher.
PageBudgetRespected ==
  /\ Len(results) <= config.max_pages
  /\ pages_crawled <= config.max_pages

\* C1 witness: concurrent workers filled a budget of two or more pages and work is left
BudgetFilledWithWorkLeft ==
  /\ config.max_pages >= 2 /\ config.concurrency >= 2
  /\ Len(results) = config.max_pages
  /\ queue # <<>>

\* C2: nothing on the frontier, no task and no emitted page is deeper than max_depth,
\* and with max_depth = 0 only the seeds are ever put on the frontier.
DepthBounded ==
  /\ \A i \in 1..Len(queue) : queue[i].depth <= config.max_depth
  /\ \A t \in 1..Len(tasks) : tasks[t].depth <= config.max_depth
  /\ \A i \in 1..Len(results) : results[i].depth <= config.max_depth
  /\ config.max_depth = 0 => Len(enqueued) <= Len(config.seed_urls)

\* C2 witness: a page at depth max_depth was emitted whose HTML links to a URL that is
\* in scope, not excluded and not yet visited
DeepestPageHasFreshLink ==
  \E i \in 1..Len(results) :
    /\ results[i].depth = config.max_depth
    /\ \E k \in 1..Len(_extract_links(results[i].html, results[i].url)) :
         LET link == _extract_links(results[i].html, results[i].url)[k]
         IN link \notin visited /\ _is_allowed_domain(link) /\ ~_is_excluded(link)

\* C3 (as claimed): every normalised URL is put on the frontier at most once, seeds
\* and discovered links together.
EnqueuedAtMostOnce ==
  \A i, j \in 1..Len(enqueued) : i # j => enqueued[i] # enqueued[j]

\* C4: a task whose fetch raised on every attempt made at most 3 attempts; the step
\* that gives it up adds exactly one to pages_failed, puts nothing on the frontier,
\* lets no exception escape, releases the semaphore and leaves the dispatcher and
\* every other task as they were; it is counted once and never runs again.
FailedTaskAbandoned ==
  [][ /\ \A t \in 1..Len(tasks) :
           /\ tasks[t].attempts <= MaxAttempts
           /\ tasks[t].outcome = "failed" => tasks'[t] = tasks[t]
           /\ (tasks[t].outcome # "failed" /\ tasks'[t].outcome = "failed") =>
                /\ tasks[t].pc = "fetch" /\ tasks[t].attempts = MaxAttempts
                /\ tasks'[t].pc = "done" /\ ~tasks'[t].exc
                /\ pages_failed' = pages_failed + 1
                /\ queue' = queue /\ enqueued' = enqueued
                /\ semaphore' = semaphore - 1
                /\ active_tasks' = active_tasks \ {t}
                /\ dpc' = dpc
                /\ \A u \in 1..Len(tasks) : u # t => tasks'[u] = tasks[u]
      /\ pages_failed' =
           pages_failed + Cardinality({t \in 1..Len(tasks) :
                                         tasks[t].outcome # "failed"
                                         /\ tasks'[t].outcome = "failed"})
    ]_vars

\* C4 witness: a task was given up as failed and a task created after it was crawled
CrawledAfterAFailure ==
  \E t, u \in 1..Len(tasks) :
    t < u /\ tasks[t].outcome = "failed" /\ tasks[u].outcome = "crawled"

\* C5 (as claimed): no page is emitted for a response whose status is not 2xx/3xx.
OnlySuccessStatusEmitted ==
  \A i \in 1..Len(results) : results[i].status_code \in 200..399

\* C6: every crawl terminates: the dispatcher eventually leaves its loop and the
\* iterator ends, so it never waits or spins forever.
Terminates == <>(dpc = "done")

\* C6 witness: the crawl ended because the page budget was reached, with work left
EndedOnBudget ==
  /\ dpc = "done"
  /\ pages_crawled >= config.max_pages
  /\ queue # <<>>

\* C7 (as claimed): a task that starts after the job was cancelled sends neither a
\* robots.txt request nor a page request.
StopFlagHonoured ==
  \A t \in active_tasks :
    tasks[t].started_cancelled => tasks[t].pc \notin {"robots_fetch", "fetch"}

\* C8 (as claimed): a page is delivered to the consumer before any task created after
\* the page was recorded has started to fetch.
ResultsStreamed ==
  \A i \in 1..Len(results) : \A t \in 1..Len(tasks) :
    (t > results[i].launched /\ tasks[t].attempts >= 1) => i <= Len(crawl_results)

\* C9: robots.txt is requested at most once per origin, also when several tasks ask
\* for the same uncached origin at once, and whether the request succeeded or not.
RobotsFetchedOncePerOrigin ==
  \A o \in Origins : robots_fetches[o] <= 1

\* C9 witness: a task waits for RobotsCache while another is fetching the robots.txt
\* of the same origin
TwoTasksAskSameOrigin ==
  \E t, u \in active_tasks :
    /\ t # u
    /\ RobotsDomain(tasks[t].url) = RobotsDomain(tasks[u].url)
    /\ tasks[t].pc = "robots_fetch"
    /\ tasks[u].pc = "robots"

\* C10: when the robots.txt request of an origin returned a status other than 200 or
\* raised, is_allowed answers True for every URL of the origin and nothing is raised.
UnavailableRobotsAllowAll ==
  /\ \A o \in DOMAIN robots_cache :
       robots_source[o] = "unavailable" =>
         /\ robots_denied[o] = 0
         /\ \A u \in ModelUrls : RobotsDomain(u) = o => RobotsAllows(robots_cache[o], u)
  /\ \A t \in 1..Len(tasks) : ~tasks[t].exc

\* C10 witness: a page of an origin whose robots.txt was unavailable has been crawled
CrawledWithoutRobots ==
  \E i \in 1..Len(results) :
    /\ RobotsDomain(results[i].url) \in DOMAIN robots_cache
    /\ robots_source[RobotsDomain(results[i].url)] = "unavailable"

\* C11: whenever a call of DomainThrottler.wait completes for a domain, at least
\* delay_seconds have passed since the previous completion for that domain recorded its
\* time, whatever the number of concurrent callers.
ThrottleSpacing ==
  [][\A t \in 1..Len(tasks) :
       (tasks[t].pc \in {"throttle", "sleep"} /\ tasks'[t].pc = "fetch")
         => since_request[ThrottleDomain(tasks[t].url)] >= config.delay_seconds]_vars

\* C11 witness: with a positive delay, two callers for the same domain have both
\* completed wait, the second one just now
SecondRequestSpaced ==
  /\ config.delay_seconds > 0
  /\ \E t, u \in 1..Len(tasks) :
       /\ t # u
       /\ ThrottleDomain(tasks[t].url) = ThrottleDomain(tasks[u].url)
       /\ tasks[t].pc = "fetch" /\ tasks[u].pc = "fetch"
       /\ since_request[ThrottleDomain(tasks[t].url)] = 0
       /\ \E w \in 1..Len(tasks) :
            /\ tasks[w].pc = "sleep"
            /\ ThrottleDomain(tasks[w].url) = ThrottleDomain(tasks[t].url)

\* C12: a caller of wait whose domain's delay has elapsed and whose domain's lock is
\* free completes at once, whoever is suspended inside wait for another domain.
UnrelatedOriginsNotSerialized ==
  \A t \in active_tasks :
    (/\ tasks[t].pc = "throttle"
     /\ since_request[ThrottleDomain(tasks[t].url)] >= config.delay_seconds
     /\ throttle_locks[ThrottleDomain(tasks[t].url)] = 0)
      => ENABLED (ThrottleEnter(t) /\ tasks'[t].pc = "fetch")

\* C12 witness: a caller completed wait for one domain at an instant when another
\* caller was asleep inside wait for a different domain
CompletedWhileOtherOriginSleeps ==
  \E t, u \in 1..Len(tasks) :
    /\ ThrottleDomain(tasks[t].url) # ThrottleDomain(tasks[u].url)
    /\ tasks[u].pc = "sleep" /\ tasks[u].remaining > 0
    /\ tasks[t].pc = "fetch"
    /\ since_request[ThrottleDomain(tasks[t].url)] = 0
    /\ since_request[ThrottleDomain(tasks[u].url)] > 0

\* C13: no ChunkConfig whose chunk_overlap is not below its chunk_size is constructed:
\* whether the two values are passed or left at their defaults, construction fails when
\* the resulting overlap is >= the resulting size, so no document is chunked under such
\* a configuration.
NoConfigWithOverlapNotBelowSize ==
  (cpc \in {"ready", "chunked"}) => chunk_config.chunk_overlap < chunk_config.chunk_size

\* C14: for every document and every strategy, the chunks chunk_document returns carry
\* the chunk_index values 0, 1, ..., n-1 in list order, each carries total_chunks = n,
\* and each carries the url of the document.
ChunkIndicesSequential ==
  cpc = "chunked" =>
    \A i \in 1..Len(chunks) :
      /\ chunks[i].chunk_index = i - 1
      /\ chunks[i].total_chunks = Len(chunks)
      /\ chunks[i].document_url = chunk_doc.url

\* a document of http://b/ was split into three chunks or more
SeveralChunksStamped ==
  /\ cpc = "chunked"
  /\ Len(chunks) >= 3
  /\ chunk_doc.url = UB

OvershootBoundedByOverlap ==
  (/\ cpc = "chunked"
   /\ chunk_config.chunk_overlap > 0
   /\ chunk_config.chunk_overlap < chunk_config.chunk_size
   /\ chunk_config.strategy \in {"recursive", "sentence", "semantic"}) =>
    \A i \in 1..Len(chunks) :
      chunks[i].token_count <= chunk_config.chunk_size + chunk_config.chunk_overlap

\* C17: for every strategy and every chunk_overlap, a document whose trimmed text has at
\* most chunk_size tokens yields exactly one chunk, whose text is the trimmed input
\* unchanged; an empty or whitespace-only text yields no chunk.
SmallDocumentIsOneChunk ==
  cpc = "chunked" =>
    /\ (strip(chunk_doc.clean_text) = <<>>) => (chunks = <<>>)
    /\ (/\ strip(chunk_doc.clean_text) # <<>>
        /\ _count_tokens(strip(chunk_doc.clean_text)) <= chunk_config.chunk_size) =>
         (Len(chunks) = 1 /\ chunks[1].text = strip(chunk_doc.clean_text))

\* the letters and digits of a text, in order
Words(s) == SelectSeq(s, LAMBDA c : c \in Letters \cup Digits)

\* the chunk texts concatenated in index order
ChunkTexts == Iterate(LAMBDA st, k : st \o chunks[k].text, <<>>, 1, Len(chunks))

OneDocumentPerContentHash ==
  pre_config.dedup_enabled =>
    \A i, j \in 1..Len(calls) :
      (/\ i < j
       /\ calls[i].doc.content_hash = calls[j].doc.content_hash
       /\ ~TooShort(calls[i].doc)
       /\ ~OffLanguage(calls[i].doc)) => calls[j].result = <<>>

\* a document was accepted, and a later one with the same content_hash and another URL
\* was rejected as an exact duplicate
SameHashOtherUrlRejected ==
  /\ pre_config.dedup_enabled
  /\ \E i, j \in 1..Len(calls) :
       /\ i < j
       /\ calls[i].result # <<>>
       /\ calls[j].doc.content_hash = calls[i].doc.content_hash
       /\ calls[j].doc.url # calls[i].doc.url
       /\ calls[j].reason = "exact_duplicate"
       /\ calls[j].result = <<>>

\* the fingerprints of the texts of two documents are similar enough for the threshold
SimilarDocuments(d1, d2) ==
  MeetsThreshold(similarity(SimHashes[TextOf(d1)], SimHashes[TextOf(d2)]),
                 pre_config.dedup_threshold)

\* C20: with dedup_enabled, process() rejects a document whenever the similarity of its
\* fingerprint to the fingerprint of any document fingerprinted earlier in the run is
\* >= dedup_threshold; hence any two accepted documents have similarity < dedup_threshold.
NearDuplicatesRejected ==
  pre_config.dedup_enabled =>
    /\ \A i, j \in 1..Len(calls) :
         (/\ i < j
          /\ calls[i].reason \in {"accepted", "near_duplicate"}
          /\ SimilarDocuments(calls[i].doc, calls[j].doc)) => calls[j].result = <<>>
    /\ \A i, j \in 1..Len(calls) :
         (i # j /\ calls[i].result # <<>> /\ calls[j].result # <<>>) =>
           ~SimilarDocuments(calls[i].doc, calls[j].doc)

\* a document was rejected as the near-duplicate of a document that is not the latest
\* one fingerprinted: the one in between is not similar to it
NearDuplicateOfEarlierDocument ==
  /\ pre_config.dedup_enabled
  /\ Len(calls) = 3
  /\ calls[1].reason = "accepted"
  /\ calls[2].reason = "accepted"
  /\ calls[3].reason = "near_duplicate"
  /\ calls[3].doc.content_hash # calls[1].doc.content_hash
  /\ SimilarDocuments(calls[1].doc, calls[3].doc)
  /\ ~SimilarDocuments(calls[2].doc, calls[3].doc)

\* C21: with a non-empty target-language set, the language step of process() rejects a
\* document if and only if the detected language is outside the set and the confidence is
\* >= min_language_confidence; an off-target detection below the minimum, a failed
\* detection (unknown, 0) included, is not rejected by this step.
LanguageStepRejectsConfidentOffTarget ==
  pre_config.target_languages # {} =>
    \A k \in 1..Len(calls) :
      calls[k].reason # "too_short" =>
        (calls[k].reason = "off_language" <=>
           (/\ calls[k].doc.detected.language \notin pre_config.target_languages
            /\ calls[k].doc.detected.probability >= pre_config.min_language_confidence))

\* with targets set, a confident off-target document was rejected by the language step,
\* and an off-target one of low confidence and one whose detection failed were accepted
LanguageStepTookBothWays ==
  /\ pre_config.target_languages # {}
  /\ \E i, j, k \in 1..Len(calls) :
       /\ calls[i].reason = "off_language"
       /\ calls[j].reason = "accepted"
       /\ calls[j].doc.detected = [language |-> "fr", probability |-> 50]
       /\ calls[k].reason = "accepted"
       /\ calls[k].doc.detected = [language |-> "unknown", probability |-> 0]

\* C22: _normalise_url_full is idempotent, normalize(normalize(u)) = normalize(u), and
\* its result is u without its fragment and without the trailing slashes of its path (the
\* empty path becoming "/"), with the scheme, the host and the query of u.
NormalisationIdempotent ==
  /\ Len(norm_results) = 2 => norm_results[2] = norm_results[1]
  /\ Len(norm_results) >= 1 =>
       norm_results[1] = UrlOf(norm_url.netloc, StrippedPath(norm_url.path),
                               norm_url.query, <<>>)

\* ------------------------------------------------------------------------
\* A crawl of a site three levels deep, from two seeds
\* ------------------------------------------------------------------------
\* an HTML page with the given href attributes
Page(hrefs) == [ctype |-> "text/html", status |-> 200, hrefs |-> hrefs]

\* http://a/ links to http://a/p/, which links to http://a/p?q; http://b/ links to
\* http://b/p, which has a link to http://a/ and a malformed one; the other pages have
\* no links
DeepSite ==
  [u \in SiteUrls |->
     {Page(IF u = UA THEN <<UAp>>
           ELSE IF u = _normalise_url_full(UAp) THEN <<UApq>>
           ELSE IF u = UB THEN <<UBp>>
           ELSE IF u = UBp THEN <<UA, UBad>>
           ELSE <<>>)}]

\* CrawlConfig(seed_urls=[a, b], max_pages=5, max_depth=2, concurrency=2)
DeepConfigs ==
  {[seed_urls |-> <<UA, UB>>, max_pages |-> 5, max_depth |-> 2, concurrency |-> 2,
    delay_seconds |-> p.delay_seconds, respect_robots_txt |-> p.respect_robots_txt,
    allowed_domains |-> <<>>, excluded_patterns |-> ExcludedPatterns] : p \in Politeness}

\* WebCrawler.__init__ for the deep crawl
DeepInit ==
  /\ site = DeepSite
  /\ config \in DeepConfigs
  /\ visited = {} /\ allowed_domains = {}
  /\ pages_crawled = 0 /\ pages_failed = 0 /\ pages_skipped = 0
  /\ queue = <<>> /\ results = <<>> /\ enqueued = <<>>
  /\ tasks = <<>> /\ active_tasks = {} /\ semaphore = 0
  /\ dpc = "init" /\ wait_set = {}
  /\ robots_cache = [o \in {} |-> <<>>] /\ robots_lock = 0
  /\ since_request = [n \in Netlocs |-> config.delay_seconds]
  /\ throttle_locks = [n \in Netlocs |-> 0]
  /\ robots_fetches = [o \in Origins |-> 0]
  /\ robots_source = [o \in Origins |-> "none"]
  /\ robots_denied = [o \in Origins |-> 0]
  /\ crawl_results = <<>> /\ job_status = "RUNNING"
  /\ NoChunking
  /\ NoPreprocessing
  /\ NoNormalising
  /\ NoPipeline

DeepSpec == DeepInit /\ [][Next]_vars

\* C23: tasks are taken from the frontier in non-decreasing depth order: a task created
\* later is never at a smaller depth than a task created before it
TasksTakenInDepthOrder ==
  \A i, j \in DOMAIN tasks : i < j => tasks[i].depth <= tasks[j].depth

\* C24: whenever a page request is sent, be it the first attempt of a fetch after
\* DomainThrottler.wait or a later attempt after tenacity's wait, at least delay_seconds
\* have passed since the time last recorded for the domain, which is no later than the
\* last request sent to it.
EveryRequestSpaced ==
  [][\A t \in 1..Len(tasks) :
       (tasks[t].pc \in {"throttle", "sleep", "retry_sleep"} /\ tasks'[t].pc = "fetch")
         => since_request[ThrottleDomain(tasks[t].url)] >= config.delay_seconds]_vars

\* C25: a task whose URL robots.txt denies ends without entering the throttler or
\* sending a request, pages_skipped grows by exactly one and pages_crawled and
\* pages_failed stay; a response that is neither text/html nor application/xhtml emits
\* no page, enqueues no link and leaves the three counters as they were.
PolicyRejectionsAreSilent ==
  [][/\ \A t \in 1..Len(tasks) :
          LET url    == tasks[t].url
              domain == RobotsDomain(url)
          IN (/\ tasks[t].pc \in {"robots", "robots_fetch"}
              /\ tasks'[t].pc \notin {"robots", "robots_fetch"}
              /\ domain \in DOMAIN robots_cache'
              /\ ~RobotsAllows(robots_cache'[domain], url))
               => /\ tasks'[t].pc = "done"
                  /\ tasks'[t].attempts = 0
                  /\ pages_skipped' = pages_skipped + 1
                  /\ pages_crawled' = pages_crawled
                  /\ pages_failed' = pages_failed
                  /\ since_request' = since_request
                  /\ throttle_locks' = throttle_locks
                  /\ results' = results
     /\ \A t \in active_tasks : \A response \in site[tasks[t].url] :
          (/\ response.ctype \notin {"text/html", "application/xhtml+xml"}
           /\ FetchResponse(t, response))
            => /\ results' = results
               /\ queue' = queue
               /\ visited' = visited
               /\ pages_crawled' = pages_crawled
               /\ pages_failed' = pages_failed
               /\ pages_skipped' = pages_skipped
               /\ tasks'[t].pc = "done"]_vars

\* C25 witness: one task ended on a robots.txt denial and another on a response that is
\* not HTML, next to a page that was crawled; only the denial and the page were counted
DeniedAndNonHtmlDropped ==
  /\ \E t, u \in 1..Len(tasks) :
       /\ tasks[t].outcome = "skipped" /\ tasks[t].pc = "done"
       /\ tasks[u].outcome = "dropped" /\ tasks[u].pc = "done"
  /\ pages_skipped = 1 /\ pages_crawled = 1 /\ pages_failed = 0
  /\ Len(results) = 1

\* ------------------------------------------------------------------------
\* A crawl of pages that link to other hosts, with and without an allow-list
\* ------------------------------------------------------------------------
\* every page links to a path of a, an excluded path of a, b, a subdomain of a and a host
\* that merely ends in a
ScopeSite == [u \in SiteUrls |-> {Page(<<UAp, UAl, UB, USub, ULike>>)}]

\* CrawlConfig.allowed_domains
AllowLists == {<<>>, << <<"a">> >>, << <<"b">> >>}

\* CrawlConfig(seed_urls=..., max_pages=2, max_depth=1, concurrency=1, allowed_domains=...)
ScopeConfigs ==
  {[seed_urls |-> s, max_pages |-> 2, max_depth |-> 1, concurrency |-> 1,
    delay_seconds |-> p.delay_seconds, respect_robots_txt |-> p.respect_robots_txt,
    allowed_domains |-> d, excluded_patterns |-> ExcludedPatterns] :
     s \in {<<UA>>, <<UA, UB>>}, d \in AllowLists, p \in Politeness}

\* WebCrawler.__init__ for the crawl across hosts
ScopeInit ==
  /\ site = ScopeSite
  /\ config \in ScopeConfigs
  /\ visited = {} /\ allowed_domains = {}
  /\ pages_crawled = 0 /\ pages_failed = 0 /\ pages_skipped = 0
  /\ queue = <<>> /\ results = <<>> /\ enqueued = <<>>
  /\ tasks = <<>> /\ active_tasks = {} /\ semaphore = 0
  /\ dpc = "init" /\ wait_set = {}
  /\ robots_cache = [o \in {} |-> <<>>] /\ robots_lock = 0
  /\ since_request = [n \in Netlocs |-> config.delay_seconds]
  /\ throttle_locks = [n \in Netlocs |-> 0]
  /\ robots_fetches = [o \in Origins |-> 0]
  /\ robots_source = [o \in Origins |-> "none"]
  /\ robots_denied = [o \in Origins |-> 0]
  /\ crawl_results = <<>> /\ job_status = "RUNNING"
  /\ NoChunking
  /\ NoPreprocessing
  /\ NoNormalising
  /\ NoPipeline

ScopeSpec == ScopeInit /\ [][Next]_vars

\* the host of a URL of the model (no port, no user information)
HostOf(u) == urlparse(u).netloc

\* the allowed domains: the configured allow-list, or the hosts of the seeds
AllowedDomainsOf(c) ==
  IF c.allowed_domains # <<>>
  THEN {c.allowed_domains[i] : i \in 1..Len(c.allowed_domains)}
  ELSE {HostOf(c.seed_urls[i]) : i \in 1..Len(c.seed_urls)}

\* h is d or a subdomain of d
IsHostOrSubdomain(h, d) ==
  \/ h = d
  \/ /\ Len(h) > Len(d) + 1
     /\ SubSeq(h, Len(h) - Len(d) + 1, Len(h)) = d
     /\ h[Len(h) - Len(d)] = "."

\* C26: every URL put on the frontier after the seeds, that is at depth >= 1, has a host
\* that is one of the allowed domains or a subdomain of one, and contains none of the
\* exclusion patterns; in particular an excluded link of an allowed host is not enqueued.
FrontierInScope ==
  \A i \in (Len(config.seed_urls) + 1)..Len(enqueued) :
    /\ \E d \in AllowedDomainsOf(config) : IsHostOrSubdomain(HostOf(enqueued[i]), d)
    /\ \A p \in config.excluded_patterns : ~Contains(enqueued[i], p)

\* C26 witness: under the allow-list [a] a page linking to all five URLs was crawled; the
\* path of a and the subdomain of a were enqueued, and the excluded path of a, the other
\* host and the look-alike host were not
ScopedLinksEnqueued ==
  /\ config.allowed_domains = << <<"a">> >>
  /\ Len(results) >= 1
  /\ \E i, j \in (Len(config.seed_urls) + 1)..Len(enqueued) :
       enqueued[i] = _normalise_url_full(UAp) /\ enqueued[j] = _normalise_url_full(USub)
  /\ \A i \in (Len(config.seed_urls) + 1)..Len(enqueued) :
       enqueued[i] \notin {UAl, UB, _normalise_url_full(ULike)}

\* the process() calls that returned a document
AcceptedCalls == {i \in DOMAIN calls : calls[i].result # <<>>}

\* with dedup enabled the fingerprint index holds exactly one entry per accepted
\* document and none for a rejected document
IndexHoldsAcceptedDocumentsOnly ==
  pre_config.dedup_enabled =>
    /\ Len(_seen_hashes) = Cardinality(AcceptedCalls)
    /\ \A k \in 1..Len(_seen_hashes) :
         \E i \in AcceptedCalls : _seen_hashes[k].url = calls[i].doc.url

\* a document is rejected as a near-duplicate only for its similarity to a document
\* accepted before it
NearDuplicateOfAcceptedOnly ==
  \A i \in DOMAIN calls :
    calls[i].reason = "near_duplicate"
      => \E j \in AcceptedCalls :
           /\ j < i
           /\ MeetsThreshold(similarity(SimHashes[TextOf(calls[i].doc)],
                                        SimHashes[TextOf(calls[j].doc)]),
                             pre_config.dedup_threshold)

\* C27: the fingerprint index holds one entry per accepted document and none for a
\* rejected one, so that a near-duplicate is always a near-duplicate of a document that
\* was accepted before it.
FingerprintIndexIsOfAcceptedDocuments ==
  IndexHoldsAcceptedDocumentsOnly /\ NearDuplicateOfAcceptedOnly

\* C28: a process() call that rejects its document as too short, off-language or exact
\* duplicate leaves the fingerprint index as it was, and the two first also leave the set
\* of exact hashes; with dedup enabled every other call appends exactly one fingerprint,
\* that of its document, whether the document is returned or not; no call removes
\* anything from the index or from the set.
FingerprintAppendedAtNearDuplicateStep ==
  [][calls' # calls =>
       LET doc     == calls'[Len(calls')].doc
           early   == TooShort(doc) \/ OffLanguage(doc)
           stopped == early \/ ExactDuplicate(doc)
       IN /\ stopped => _seen_hashes' = _seen_hashes
          /\ early => _exact_hashes' = _exact_hashes
          /\ (~stopped /\ pre_config.dedup_enabled)
               => /\ Len(_seen_hashes') = Len(_seen_hashes) + 1
                  /\ _seen_hashes'[Len(_seen_hashes')] =
                       [simhash |-> SimHashes[TextOf(doc)], url |-> doc.url]
          /\ SubSeq(_seen_hashes', 1, Len(_seen_hashes)) = _seen_hashes
          /\ _exact_hashes \subseteq _exact_hashes']_vars

\* C28 witness: three calls, the first accepted, the second rejected as a near-duplicate
\* and the third rejected as too short: two fingerprints are in the index
RejectedFingerprintKept ==
  /\ Len(calls) = 3
  /\ calls[1].result # <<>>
  /\ calls[2].reason = "near_duplicate" /\ calls[2].result = <<>>
  /\ calls[3].reason = "too_short"
  /\ Len(_seen_hashes) = 2
  /\ _seen_hashes[2].url = calls[2].doc.url

\* C29: when the crawl has ended every task that was started is counted in at most one of
\* the three counters: their sum does not exceed the number of tasks, pages_crawled is
\* the number of emitted pages, and no task whose page was emitted is counted as failed.
EachTaskCountedAtMostOnce ==
  dpc = "done" =>
    /\ pages_crawled + pages_failed + pages_skipped <= Len(tasks)
    /\ pages_crawled = Len(results)
    /\ \A t \in 1..Len(tasks) : tasks[t].outcome # "failed_after_emit"

\* ------------------------------------------------------------------------
\* A job: the pipeline thread and cancel_job
\* ------------------------------------------------------------------------
\* CrawlJob.Status
Statuses == {"PENDING", "RUNNING", "COMPLETED", "FAILED", "CANCELLED"}

\* the stages of _execute_pipeline: crawl, extract, preprocess, chunk, embed, each
\* followed by check_cancelled(), then export and store, which are not
CheckedStages == 5
Stages        == 6

\* the stages that end the pipeline as COMPLETED when they produce nothing
EmptyStages == 1..3

\* everything but the job's row, the thread and the calls of cancel_job
outsideJob == <<site, config, allowed_domains, counterVars, frontierVars, results, tasks,
                active_tasks, semaphore, robotsVars, throttleVars, dispVars, crawl_results,
                chunkerVars, preprocessorVars, normaliserVars>>

\* a PENDING job whose thread start_pipeline_job has just created
JobInit ==
  /\ IdleCrawler
  /\ NoChunking
  /\ NoPreprocessing
  /\ NoNormalising
  /\ job_status = "PENDING"
  /\ thread_pc = "new" /\ thread_stage = 1 /\ job = "PENDING"
  /\ cancel_job_read = "none" /\ cancel_returns = <<>>

\* _run_pipeline_thread up to _execute_pipeline: the job is read, set RUNNING and saved
PipelineStart ==
  /\ thread_pc = "new"
  /\ job' = "RUNNING"
  /\ job_status' = "RUNNING"
  /\ thread_pc' = "work"
  /\ UNCHANGED <<outsideJob, thread_stage, cancel_job_read, cancel_returns>>

\* a stage runs; its saves name update_fields without "status"
StageWork ==
  /\ thread_pc = "work"
  /\ thread_stage <= CheckedStages
  /\ thread_pc' = "check"
  /\ UNCHANGED <<outsideJob, job_status, thread_stage, job, cancel_job_read, cancel_returns>>

\* check_cancelled(): the status is read again from the database; the pipeline returns
\* when it is CANCELLED
CheckCancelled ==
  /\ thread_pc = "check"
  /\ job' = job_status
  /\ thread_pc' = IF job_status = "CANCELLED" THEN "done" ELSE "checked"
  /\ UNCHANGED <<outsideJob, job_status, thread_stage, cancel_job_read, cancel_returns>>

\* "if not crawl_results", "if not extracted", "if not processed": COMPLETED is saved
StageEmpty ==
  /\ thread_pc = "checked"
  /\ thread_stage \in EmptyStages
  /\ job' = "COMPLETED"
  /\ job_status' = "COMPLETED"
  /\ thread_pc' = "done"
  /\ UNCHANGED <<outsideJob, thread_stage, cancel_job_read, cancel_returns>>

\* the next stage starts
StageNext ==
  /\ thread_pc = "checked"
  /\ thread_stage' = thread_stage + 1
  /\ thread_pc' = "work"
  /\ UNCHANGED <<outsideJob, job_status, job, cancel_job_read, cancel_returns>>

\* export and store end: "job.status = COMPLETED ... job.save()"
PipelineComplete ==
  /\ thread_pc = "work"
  /\ thread_stage = Stages
  /\ job' = "COMPLETED"
  /\ job_status' = "COMPLETED"
  /\ thread_pc' = "done"
  /\ UNCHANGED <<outsideJob, thread_stage, cancel_job_read, cancel_returns>>

\* a stage raises: "except Exception" of _run_pipeline_thread saves FAILED
PipelineRaise ==
  /\ thread_pc = "work"
  /\ job' = "FAILED"
  /\ job_status' = "FAILED"
  /\ thread_pc' = "done"
  /\ UNCHANGED <<outsideJob, thread_stage, cancel_job_read, cancel_returns>>

\* cancel_job: CrawlJob.objects.get(pk=job_id)
CancelGet ==
  /\ cancel_job_read = "none"
  /\ Len(cancel_returns) < MaxCancelCalls
  /\ cancel_job_read' = job_status
  /\ UNCHANGED <<outsideJob, job_status, thread_pc, thread_stage, job, cancel_returns>>

\* cancel_job: the test of the status that was read, the save and the return
CancelSave ==
  /\ cancel_job_read # "none"
  /\ IF cancel_job_read = "RUNNING"
     THEN /\ job_status' = "CANCELLED"
          /\ cancel_returns' = Append(cancel_returns, TRUE)
     ELSE /\ job_status' = job_status
          /\ cancel_returns' = Append(cancel_returns, FALSE)
  /\ cancel_job_read' = "none"
  /\ UNCHANGED <<outsideJob, thread_pc, thread_stage, job>>

JobNext ==
  \/ PipelineStart
  \/ StageWork
  \/ CheckCancelled
  \/ StageEmpty
  \/ StageNext
  \/ PipelineComplete
  \/ PipelineRaise
  \/ CancelGet
  \/ CancelSave

JobSpec == JobInit /\ [][JobNext]_vars

\* C30: once a call of cancel_job has returned True, having stored CANCELLED for a
\* RUNNING job, the stored status of the job is never COMPLETED or FAILED, whatever the
\* pipeline thread does afterwards.
CancellationIsFinal ==
  (\E i \in 1..Len(cancel_returns) : cancel_returns[i])
    => job_status \notin {"COMPLETED", "FAILED"}

====
